---- MODULE Spec2Model ----
(***************************************************************************)
(* Model of proq's response decoding (src/src/result_types.rs): the serde   *)
(* codecs of Sample and StringSample and the untagged-enum resolver of the *)
(* `data` payload.  A decode call is a step from a JSON value to a result.  *)
(***************************************************************************)
EXTENDS Integers, Sequences, FiniteSets, TLC

VARIABLES op, pc, input, out, wire, out2

vars == <<op, pc, input, out, wire, out2>>

(***************************************************************************)
(* Bounds of the model.                                                    *)
(***************************************************************************)
\* longest value string built from the numeric alphabet
MaxStrLen == 3
\* most fields of a `data` object
MaxFields == 2
\* most elements of a `data` array
MaxElems == 2

(***************************************************************************)
(* f64 values: finite decimals sign * m * 10^e with m stripped of trailing *)
(* zeros, the two infinities and NaN.  Strings are sequences of characters.*)
(***************************************************************************)
Fin(neg, m, e) == [k |-> "fin", neg |-> neg, m |-> m, e |-> e]

F64Zero == Fin(FALSE, 0, 0)

\* std::f64::INFINITY
INFINITY == [k |-> "inf", neg |-> FALSE, m |-> 0, e |-> 0]

\* std::f64::NEG_INFINITY
NEG_INFINITY == [k |-> "inf", neg |-> TRUE, m |-> 0, e |-> 0]

\* std::f64::NAN
NAN == [k |-> "nan", neg |-> FALSE, m |-> 0, e |-> 0]

\* f64's PartialEq: NaN differs from everything, the two zeros are equal
F64Eq(x, y) ==
    /\ x.k # "nan"
    /\ y.k # "nan"
    /\ \/ x = y
       \/ x.k = "fin" /\ y.k = "fin" /\ x.m = 0 /\ y.m = 0

PROQ_INFINITY == <<"I", "n", "f">>

PROQ_NEGATIVE_INFINITY == <<"-", "I", "n", "f">>

PROQ_NAN == <<"N", "a", "N">>

(***************************************************************************)
(* JSON values as serde_json hands them to the visitors.  Every value has  *)
(* the same fields; `o` is the object's fields in wire order (a key may    *)
(* occur twice on the wire).                                               *)
(***************************************************************************)
JNull == [t |-> "null", n |-> F64Zero, s |-> <<>>, a |-> <<>>, o |-> <<>>]

JBool == [t |-> "bool", n |-> F64Zero, s |-> <<>>, a |-> <<>>, o |-> <<>>]

JNum(f) == [t |-> "num", n |-> f, s |-> <<>>, a |-> <<>>, o |-> <<>>]

JStr(cs) == [t |-> "str", n |-> F64Zero, s |-> cs, a |-> <<>>, o |-> <<>>]

JArr(elems) == [t |-> "arr", n |-> F64Zero, s |-> <<>>, a |-> elems, o |-> <<>>]

JObj(fields) == [t |-> "obj", n |-> F64Zero, s |-> <<>>, a |-> <<>>, o |-> fields]

(***************************************************************************)
(* Results of a decode: Ok(value) or Err(message).                         *)
(***************************************************************************)
NoValue == [variant |-> "none"]

Ok(v) == [ok |-> TRUE, v |-> v, err |-> ""]

Err(e) == [ok |-> FALSE, v |-> NoValue, err |-> e]

Pending == Err("pending")

(***************************************************************************)
(* str::parse::<f64>: [sign] ( "inf" | "NaN" | digits [. digits] [exp] )   *)
(* with at least one digit before or after the point.                      *)
(***************************************************************************)
Digits == {"0", "1", "2", "3", "4", "5", "6", "7", "8", "9"}

DigitVal(c) ==
    CASE c = "0" -> 0 [] c = "1" -> 1 [] c = "2" -> 2 [] c = "3" -> 3
      [] c = "4" -> 4 [] c = "5" -> 5 [] c = "6" -> 6 [] c = "7" -> 7
      [] c = "8" -> 8 [] c = "9" -> 9

\* length of the longest prefix of cs made of digits
DigitPrefixLen(cs) ==
    LET stops == {i \in 1..Len(cs) : cs[i] \notin Digits}
    IN  IF stops = {} THEN Len(cs)
        ELSE (CHOOSE i \in stops : \A j \in stops : i <= j) - 1

RECURSIVE DigitsToInt(_)
DigitsToInt(ds) ==
    IF ds = <<>> THEN 0
    ELSE 10 * DigitsToInt(SubSeq(ds, 1, Len(ds) - 1)) + DigitVal(ds[Len(ds)])

RECURSIVE Normalize(_, _, _)
Normalize(neg, m, e) ==
    IF m = 0 THEN Fin(neg, 0, 0)
    ELSE IF m % 10 = 0 THEN Normalize(neg, m \div 10, e + 1)
    ELSE Fin(neg, m, e)

\* the digits of the exponent, all of them digits and at least one
ExponentDigits(neg, ds) ==
    IF ds = <<>> \/ DigitPrefixLen(ds) # Len(ds) THEN Err("invalid float literal")
    ELSE Ok(IF neg THEN 0 - DigitsToInt(ds) ELSE DigitsToInt(ds))

\* the exponent part: empty, or e/E, an optional sign and the digits
ParseExponent(cs) ==
    IF cs = <<>> THEN Ok(0)
    ELSE IF Head(cs) \notin {"e", "E"} THEN Err("invalid float literal")
    ELSE IF Len(cs) > 1 /\ cs[2] \in {"-", "+"}
    THEN ExponentDigits(cs[2] = "-", SubSeq(cs, 3, Len(cs)))
    ELSE ExponentDigits(FALSE, Tail(cs))

\* the value m * 10^(exponent - nf), once the exponent is read
DecimalEnd(neg, m, nf, ex) == IF ~ex.ok THEN ex ELSE Ok(Normalize(neg, m, ex.v - nf))

\* ni integer digits cs[1..ni] and nf fraction digits cs[at+1..at+nf] are read
DecimalAfterFraction(neg, cs, ni, at, nf) ==
    IF ni + nf = 0 THEN Err("invalid float literal")
    ELSE DecimalEnd(neg, DigitsToInt(SubSeq(cs, 1, ni) \o SubSeq(cs, at + 1, at + nf)), nf,
                    ParseExponent(SubSeq(cs, at + nf + 1, Len(cs))))

\* ni integer digits are read: a point starts the fraction
DecimalAfterInteger(neg, cs, ni) ==
    IF ni < Len(cs) /\ cs[ni + 1] = "."
    THEN DecimalAfterFraction(neg, cs, ni, ni + 1, DigitPrefixLen(SubSeq(cs, ni + 2, Len(cs))))
    ELSE DecimalAfterFraction(neg, cs, ni, ni, 0)

ParseDecimal(neg, cs) == DecimalAfterInteger(neg, cs, DigitPrefixLen(cs))

\* the literal after its sign
ParseUnsigned(neg, cs) ==
    IF cs = <<"i", "n", "f">> THEN Ok(IF neg THEN NEG_INFINITY ELSE INFINITY)
    ELSE IF cs = <<"N", "a", "N">> THEN Ok(NAN)
    ELSE ParseDecimal(neg, cs)

ParseF64(cs) ==
    IF cs = <<>> THEN Err("cannot parse float from empty string")
    ELSE IF Head(cs) \in {"-", "+"} THEN ParseUnsigned(Head(cs) = "-", Tail(cs))
    ELSE ParseUnsigned(FALSE, cs)

(***************************************************************************)
(* Sample and StringSample.                                                *)
(***************************************************************************)
MkSample(epoch, value) == [epoch |-> epoch, value |-> value]

\* map_err of the parse: de::Error::invalid_value
OrInvalidValue(parsed) == IF parsed.ok THEN parsed ELSE Err("invalid value")

\* the match with unwrap_or(0.0) in place of map_err: a value that does not
\* parse becomes zero
SampleValueLenient(value) ==
    IF value = PROQ_INFINITY THEN Ok(INFINITY)
    ELSE IF value = PROQ_NEGATIVE_INFINITY THEN Ok(NEG_INFINITY)
    ELSE IF value = PROQ_NAN THEN Ok(NAN)
    ELSE IF ParseF64(value).ok THEN ParseF64(value)
    ELSE Ok(F64Zero)

\* the match on the value string in Sample's visit_seq
SampleValue(value) ==
    IF value = PROQ_INFINITY THEN Ok(INFINITY)
    ELSE IF value = PROQ_NEGATIVE_INFINITY THEN Ok(NEG_INFINITY)
    ELSE IF value = PROQ_NAN THEN Ok(NAN)
    ELSE OrInvalidValue(ParseF64(value))

\* the end of visit_seq: the sample, unless the value failed or the sequence
\* holds more than the two elements read
SampleEnd(j, value) ==
    IF ~value.ok THEN value
    ELSE IF Len(j.a) > 2 THEN Err("invalid length")
    ELSE Ok(MkSample(j.a[1].n, value.v))

\* visit_seq with unwrap_or_default() in place of ok_or_else: a missing
\* element becomes zero
SampleDeserializeDefaulting(j) ==
    IF j.t # "arr" THEN Err("invalid type")
    ELSE IF Len(j.a) = 0 THEN Ok(MkSample(F64Zero, F64Zero))
    ELSE IF j.a[1].t # "num" THEN Err("invalid type")
    ELSE IF Len(j.a) = 1 THEN Ok(MkSample(j.a[1].n, F64Zero))
    ELSE IF j.a[2].t # "str" THEN Err("invalid type")
    ELSE SampleEnd(j, SampleValue(j.a[2].s))

\* impl Deserialize for Sample: deserialize_seq with VisitorImpl::visit_seq
SampleDeserialize(j) ==
    IF j.t # "arr" THEN Err("invalid type")
    ELSE IF Len(j.a) = 0 THEN Err("missing field sample time")
    ELSE IF j.a[1].t # "num" THEN Err("invalid type")
    ELSE IF Len(j.a) = 1 THEN Err("missing field sample value")
    ELSE IF j.a[2].t # "str" THEN Err("invalid type")
    ELSE SampleEnd(j, SampleValue(j.a[2].s))

\* serialize_element of an f64: a JSON number, null when it is not finite
SerializeF64(x) == IF x.k = "fin" THEN JNum(x) ELSE JNull

\* impl Serialize for Sample: a tuple of the two f64 fields
SampleSerialize(sample) ==
    JArr(<<SerializeF64(sample.epoch), SerializeF64(sample.value)>>)

\* StringSample's visit_seq written like Sample's: the value string replaced
\* by the rendering of the number it parses to
StringSampleDeserializeParsed(j) ==
    IF j.t # "arr" THEN Err("invalid type")
    ELSE IF Len(j.a) = 0 THEN Err("missing field sample time")
    ELSE IF j.a[1].t # "num" THEN Err("invalid type")
    ELSE IF Len(j.a) = 1 THEN Err("missing field sample value")
    ELSE IF j.a[2].t # "str" THEN Err("invalid type")
    ELSE IF Len(j.a) > 2 THEN Err("invalid length")
    ELSE IF j.a[2].s \in {PROQ_INFINITY, PROQ_NEGATIVE_INFINITY, PROQ_NAN}
    THEN Ok(MkSample(j.a[1].n, j.a[2].s))
    ELSE IF ParseF64(j.a[2].s).ok THEN Ok(MkSample(j.a[1].n, <<"0">>))
    ELSE Err("invalid value")

\* impl Deserialize for StringSample
StringSampleDeserialize(j) ==
    IF j.t # "arr" THEN Err("invalid type")
    ELSE IF Len(j.a) = 0 THEN Err("missing field sample time")
    ELSE IF j.a[1].t # "num" THEN Err("invalid type")
    ELSE IF Len(j.a) = 1 THEN Err("missing field sample value")
    ELSE IF j.a[2].t # "str" THEN Err("invalid type")
    ELSE IF Len(j.a) > 2 THEN Err("invalid length")
    ELSE Ok(MkSample(j.a[1].n, j.a[2].s))

\* impl Serialize for StringSample
StringSampleSerialize(sample) ==
    JArr(<<SerializeF64(sample.epoch), JStr(sample.value)>>)

(***************************************************************************)
(* Objects: fields in wire order, looked up by key.                        *)
(***************************************************************************)
Min(S) == CHOOSE i \in S : \A j \in S : i <= j

Max(S) == CHOOSE i \in S : \A j \in S : j <= i

Keys(o) == {o[i][1] : i \in DOMAIN o}

Count(o, k) == Cardinality({i \in DOMAIN o : o[i][1] = k})

FirstOf(o, k) == o[Min({i \in DOMAIN o : o[i][1] = k})][2]

LastOf(o, k) == o[Max({i \in DOMAIN o : o[i][1] = k})][2]

\* Vec<T>: a sequence each of whose elements decodes, in wire order; rs[i] is
\* what T's decoder makes of element i
VecDeserialize(j, rs) ==
    IF j.t # "arr" THEN Err("invalid type")
    ELSE LET bad == {i \in DOMAIN j.a : ~rs[i].ok}
         IN  IF bad # {} THEN rs[Min(bad)]
             ELSE Ok([i \in DOMAIN j.a |-> rs[i].v])

\* String
StringDeserialize(j) == IF j.t = "str" THEN Ok(j.s) ELSE Err("invalid type")

\* Option<String>: null is None
NoneValue == [some |-> FALSE, val |-> <<>>]

SomeValue(x) == [some |-> TRUE, val |-> x]

OptionStringDeserialize(j) ==
    IF j.t = "null" THEN Ok(NoneValue)
    ELSE IF j.t = "str" THEN Ok(SomeValue(j.s))
    ELSE Err("invalid type")

\* HashMap<String, String>: every value a string, the last of a repeated key kept
MapDeserialize(j) ==
    IF j.t # "obj" THEN Err("invalid type")
    ELSE IF \E i \in DOMAIN j.o : j.o[i][2].t # "str" THEN Err("invalid type")
    ELSE Ok([k \in Keys(j.o) |-> LastOf(j.o, k).s])

(***************************************************************************)
(* A struct with derived Deserialize, read from an object (visit_map) or   *)
(* from an array (visit_seq).  rs[i] is what the decoder of the field at   *)
(* entry i makes of the entry's value.                                     *)
(***************************************************************************)
\* the entries of the input, the field each names and the value it carries
Entries(j) == IF j.t = "obj" THEN DOMAIN j.o ELSE DOMAIN j.a

KeyAt(j, fields, i) ==
    IF j.t = "obj" THEN j.o[i][1]
    ELSE IF i <= Len(fields) THEN fields[i] ELSE ""

ValueAt(j, i) == IF j.t = "obj" THEN j.o[i][2] ELSE j.a[i]

\* the error of entry i of an object, "" when none
StructFieldErr(o, i, known, deny, rs) ==
    IF o[i][1] \notin known THEN (IF deny THEN "unknown field" ELSE "")
    ELSE IF \E h \in 1..(i - 1) : o[h][1] = o[i][1] THEN "duplicate field"
    ELSE IF ~rs[i].ok THEN rs[i].err
    ELSE ""

StructMapErr(o, known, required, deny, rs) ==
    LET bad == {i \in DOMAIN o : StructFieldErr(o, i, known, deny, rs) # ""}
    IN  IF bad # {} THEN StructFieldErr(o, Min(bad), known, deny, rs)
        ELSE IF \E k \in required : k \notin Keys(o) THEN "missing field"
        ELSE ""

StructSeqErr(a, fields, required, rs) ==
    LET n == IF Len(a) < Len(fields) THEN Len(a) ELSE Len(fields)
        bad == {i \in 1..n : ~rs[i].ok}
    IN  IF bad # {} THEN rs[Min(bad)].err
        ELSE IF \E i \in (n + 1)..Len(fields) : fields[i] \in required THEN "invalid length"
        ELSE IF Len(a) > Len(fields) THEN "invalid length"
        ELSE ""

\* the first error of the struct, "" when none
StructErr(j, fields, required, deny, rs) ==
    IF j.t = "obj" THEN StructMapErr(j.o, {fields[i] : i \in DOMAIN fields}, required, deny, rs)
    ELSE IF j.t = "arr" THEN StructSeqErr(j.a, fields, required, rs)
    ELSE "invalid type"

\* whether the struct's input carries field k, and the entry that carries it
HasField(j, fields, k) ==
    IF j.t = "obj" THEN k \in Keys(j.o)
    ELSE \E i \in DOMAIN fields : fields[i] = k /\ i <= Len(j.a)

IndexOf(j, fields, k) ==
    IF j.t = "obj" THEN Min({i \in DOMAIN j.o : j.o[i][1] = k})
    ELSE CHOOSE i \in DOMAIN fields : fields[i] = k

StructEnd(e, value) == IF e # "" THEN Err(e) ELSE Ok(value)

\* the struct, field by field: a field the input does not carry has its
\* #[serde(default)] value
StructDeserialize(j, fields, required, deny, rs, defaults) ==
    StructEnd(StructErr(j, fields, required, deny, rs),
              [k \in {fields[i] : i \in DOMAIN fields} |->
                  IF HasField(j, fields, k) THEN rs[IndexOf(j, fields, k)].v
                  ELSE defaults[k]])

NoDefaults == <<>>

(***************************************************************************)
(* Url::parse: a scheme and ":"; http and https need a host, and an empty  *)
(* path becomes "/".  A Url is kept as its serialization.                  *)
(***************************************************************************)
Alpha == {"a", "b", "c", "d", "e", "f", "g", "h", "i", "j", "k", "l", "m",
          "n", "o", "p", "q", "r", "s", "t", "u", "v", "w", "x", "y", "z",
          "A", "B", "C", "D", "E", "F", "G", "H", "I", "J", "K", "L", "M",
          "N", "O", "P", "Q", "R", "S", "T", "U", "V", "W", "X", "Y", "Z"}

RECURSIVE StripSlashes(_)
StripSlashes(cs) ==
    IF cs # <<>> /\ Head(cs) \in {"/", "\\"} THEN StripSlashes(Tail(cs)) ELSE cs

SpecialSchemes == {<<"h", "t", "t", "p">>, <<"h", "t", "t", "p", "s">>}

\* an http or https url: the host and the path after the slashes
UrlSpecial(scheme, rest) ==
    IF rest = <<>> THEN Err("empty host")
    ELSE IF \A i \in DOMAIN rest : rest[i] # "/"
    THEN Ok(scheme \o <<":", "/", "/">> \o rest \o <<"/">>)
    ELSE Ok(scheme \o <<":", "/", "/">> \o rest)

\* the url whose first ":" is at c
UrlWithScheme(cs, c) ==
    IF \E i \in 1..(c - 1) : cs[i] \notin Alpha \cup Digits \cup {"+", "-", "."}
    THEN Err("relative URL without a base")
    ELSE IF SubSeq(cs, 1, c - 1) \notin SpecialSchemes THEN Ok(cs)
    ELSE UrlSpecial(SubSeq(cs, 1, c - 1), StripSlashes(SubSeq(cs, c + 1, Len(cs))))

UrlParse(cs) ==
    IF (\A i \in DOMAIN cs : cs[i] # ":") \/ cs[1] \notin Alpha
    THEN Err("relative URL without a base")
    ELSE UrlWithScheme(cs, Min({i \in DOMAIN cs : cs[i] = ":"}))

\* url_serde: a string parsed as a Url
UrlDeserialize(j) == IF j.t # "str" THEN Err("invalid type") ELSE UrlParse(j.s)

(***************************************************************************)
(* DateTime::<FixedOffset>::from_str: YYYY-MM-DDTHH:MM:SS, an optional     *)
(* fraction, then Z or a +HH:MM / -HH:MM offset.                           *)
(***************************************************************************)
IsDigits(cs, i, n) == i + n - 1 <= Len(cs) /\ \A h \in i..(i + n - 1) : cs[h] \in Digits

NumAt(cs, i, n) == DigitsToInt(SubSeq(cs, i, i + n - 1))

RECURSIVE Pow10(_)
Pow10(n) == IF n = 0 THEN 1 ELSE 10 * Pow10(n - 1)

DaysIn(y, mo) ==
    IF mo = 2 THEN (IF y % 4 = 0 /\ (y % 100 # 0 \/ y % 400 = 0) THEN 29 ELSE 28)
    ELSE IF mo \in {4, 6, 9, 11} THEN 30 ELSE 31

\* the zone: Z, or a sign, two digits, ":" and two digits; minutes east of UTC
ParseOffset(cs) ==
    IF cs \in {<<"Z">>, <<"z">>} THEN Ok(0)
    ELSE IF Len(cs) = 6 /\ cs[1] \in {"+", "-"} /\ IsDigits(cs, 2, 2) /\ cs[4] = ":"
            /\ IsDigits(cs, 5, 2) /\ NumAt(cs, 5, 2) < 60
    THEN Ok((IF cs[1] = "-" THEN -1 ELSE 1) * (60 * NumAt(cs, 2, 2) + NumAt(cs, 5, 2)))
    ELSE Err("input contains invalid characters")

\* the date and time read, with the nanoseconds and the zone
DateTimeEnd(cs, ns, off) ==
    IF ~off.ok THEN off
    ELSE IF \/ NumAt(cs, 6, 2) < 1 \/ NumAt(cs, 6, 2) > 12 \/ NumAt(cs, 9, 2) < 1
            \/ NumAt(cs, 9, 2) > DaysIn(NumAt(cs, 1, 4), NumAt(cs, 6, 2))
            \/ NumAt(cs, 12, 2) > 23 \/ NumAt(cs, 15, 2) > 59 \/ NumAt(cs, 18, 2) > 60
    THEN Err("input is out of range")
    ELSE Ok([y |-> NumAt(cs, 1, 4), mo |-> NumAt(cs, 6, 2), d |-> NumAt(cs, 9, 2),
             h |-> NumAt(cs, 12, 2), mi |-> NumAt(cs, 15, 2), s |-> NumAt(cs, 18, 2),
             ns |-> ns, off |-> off.v])

\* a fraction of nfrac digits starts at cs[21]
DateTimeFraction(cs, nfrac) ==
    IF nfrac = 0 THEN Err("input contains invalid characters")
    ELSE DateTimeEnd(cs,
                     IF nfrac <= 9 THEN NumAt(cs, 21, nfrac) * Pow10(9 - nfrac)
                     ELSE NumAt(cs, 21, 9),
                     ParseOffset(SubSeq(cs, 21 + nfrac, Len(cs))))

DateTimeFromStr(cs) ==
    IF ~(/\ IsDigits(cs, 1, 4) /\ Len(cs) >= 20 /\ cs[5] = "-" /\ IsDigits(cs, 6, 2)
         /\ cs[8] = "-" /\ IsDigits(cs, 9, 2) /\ cs[11] = "T" /\ IsDigits(cs, 12, 2)
         /\ cs[14] = ":" /\ IsDigits(cs, 15, 2) /\ cs[17] = ":" /\ IsDigits(cs, 18, 2))
    THEN Err("input contains invalid characters")
    ELSE IF cs[20] = "." THEN DateTimeFraction(cs, DigitPrefixLen(SubSeq(cs, 21, Len(cs))))
    ELSE DateTimeEnd(cs, 0, ParseOffset(SubSeq(cs, 20, Len(cs))))

(***************************************************************************)
(* Field coercions of ActiveTarget.                                        *)
(***************************************************************************)
\* o.filter(|s| !s.is_empty())
FilterNonEmpty(o) ==
    IF ~o.ok THEN o
    ELSE IF o.v.some /\ o.v.val # <<>> THEN o
    ELSE Ok(NoneValue)

\* empty_string_is_none
empty_string_is_none(j) == FilterNonEmpty(OptionStringDeserialize(j))

\* none_to_empty_string with serialize_none for an absent string
none_to_empty_string_or_null(s) == IF s.some THEN JStr(s.val) ELSE JNull

\* none_to_empty_string
none_to_empty_string(s) == IF s.some THEN JStr(s.val) ELSE JStr(<<>>)

\* rfc3339_to_date_time with the epoch in place of a failed parse
rfc3339_to_date_time_or_default(j) ==
    IF j.t # "str" THEN Err("invalid type")
    ELSE IF DateTimeFromStr(j.s).ok THEN DateTimeFromStr(j.s)
    ELSE Ok([y |-> 1970, mo |-> 1, d |-> 1, h |-> 0, mi |-> 0, s |-> 0, ns |-> 0, off |-> 0])

\* rfc3339_to_date_time
rfc3339_to_date_time(j) == IF j.t # "str" THEN Err("invalid type") ELSE DateTimeFromStr(j.s)

\* the match without its catch-all arm
HealthOfStrict(o) ==
    IF ~o.ok THEN o
    ELSE IF ~o.v.some THEN Ok("Unknown")
    ELSE IF o.v.val = <<"u", "p">> THEN Ok("Up")
    ELSE IF o.v.val = <<"d", "o", "w", "n">> THEN Ok("Down")
    ELSE IF o.v.val = <<"u", "n", "k", "n", "o", "w", "n">> THEN Ok("Unknown")
    ELSE Err("unknown variant")

\* o.map_or(TargetHealth::Unknown, ...)
HealthOf(o) ==
    IF ~o.ok THEN o
    ELSE IF ~o.v.some THEN Ok("Unknown")
    ELSE IF o.v.val = <<"u", "p">> THEN Ok("Up")
    ELSE IF o.v.val = <<"d", "o", "w", "n">> THEN Ok("Down")
    ELSE Ok("Unknown")

\* deserialize_health
deserialize_health(j) == HealthOf(OptionStringDeserialize(j))

\* serialize_health
serialize_health(health) ==
    IF health = "Up" THEN JStr(<<"u", "p">>)
    ELSE IF health = "Down" THEN JStr(<<"d", "o", "w", "n">>)
    ELSE JStr(<<"u", "n", "k", "n", "o", "w", "n">>)

\* n written in w decimal digits, zero padded
RECURSIVE Padded(_, _)
Padded(n, w) ==
    IF w = 0 THEN <<>>
    ELSE Padded(n \div 10, w - 1) \o <<CHOOSE c \in Digits : DigitVal(c) = n % 10>>

\* the fraction of to_rfc3339: nothing, or 3, 6 or 9 digits after a "."
FractionDigits(ns) ==
    IF ns = 0 THEN <<>>
    ELSE IF ns % 1000000 = 0 THEN <<".">> \o Padded(ns \div 1000000, 3)
    ELSE IF ns % 1000 = 0 THEN <<".">> \o Padded(ns \div 1000, 6)
    ELSE <<".">> \o Padded(ns, 9)

\* date_time_to_rfc3339: the local date and time, the fraction, the offset as
\* a sign, hours, ":" and minutes
date_time_to_rfc3339(v) ==
    JStr(Padded(v.y, 4) \o <<"-">> \o Padded(v.mo, 2) \o <<"-">> \o Padded(v.d, 2)
         \o <<"T">> \o Padded(v.h, 2) \o <<":">> \o Padded(v.mi, 2) \o <<":">>
         \o Padded(v.s, 2) \o FractionDigits(v.ns)
         \o <<IF v.off < 0 THEN "-" ELSE "+">>
         \o Padded(Max({v.off, -v.off}) \div 60, 2) \o <<":">>
         \o Padded(Max({v.off, -v.off}) % 60, 2))

\* HashMap<String, String> written entry by entry, in the map's iteration
\* order, which is any order of its keys
MapSerializations(m) ==
    {JObj([i \in DOMAIN p |-> <<p[i], JStr(m[p[i]])>>]) :
        p \in {q \in [1..Cardinality(DOMAIN m) -> DOMAIN m] :
                  \A i, h \in DOMAIN q : q[i] = q[h] => i = h}}

\* Vec<T> written element by element, sets[i] the encodings of element i
VecSerializations(sets) ==
    {JArr(f) : f \in {g \in [DOMAIN sets -> UNION {sets[i] : i \in DOMAIN sets}] :
                        \A i \in DOMAIN sets : g[i] \in sets[i]}}

(***************************************************************************)
(* Targets.                                                                *)
(***************************************************************************)
ActiveTargetFields ==
    <<"discoveredLabels", "labels", "scrapeUrl", "lastError", "lastScrape", "health">>

ActiveTargetField(k, v) ==
    IF k \in {"discoveredLabels", "labels"} THEN MapDeserialize(v)
    ELSE IF k = "scrapeUrl" THEN UrlDeserialize(v)
    ELSE IF k = "lastError" THEN empty_string_is_none(v)
    ELSE IF k = "lastScrape" THEN rfc3339_to_date_time(v)
    ELSE deserialize_health(v)

\* #[serde(rename_all = "camelCase")] struct ActiveTarget
ActiveTargetDeserialize(j) ==
    StructDeserialize(j, ActiveTargetFields,
                      {ActiveTargetFields[i] : i \in DOMAIN ActiveTargetFields}, FALSE,
                      [i \in Entries(j) |->
                          ActiveTargetField(KeyAt(j, ActiveTargetFields, i), ValueAt(j, i))],
                      NoDefaults)

\* derived Serialize of ActiveTarget: the six fields in declaration order
ActiveTargetSerializations(t) ==
    {JObj(<<<<"discoveredLabels", d>>, <<"labels", l>>,
            <<"scrapeUrl", JStr(t.scrapeUrl)>>,
            <<"lastError", none_to_empty_string(t.lastError)>>,
            <<"lastScrape", date_time_to_rfc3339(t.lastScrape)>>,
            <<"health", serialize_health(t.health)>>>>) :
        d \in MapSerializations(t.discoveredLabels), l \in MapSerializations(t.labels)}

DroppedTargetField(k, v) == MapDeserialize(v)

\* #[serde(rename_all = "camelCase")] struct DroppedTarget
DroppedTargetDeserialize(j) ==
    StructDeserialize(j, <<"discoveredLabels">>, {"discoveredLabels"}, FALSE,
                      [i \in Entries(j) |->
                          DroppedTargetField(KeyAt(j, <<"discoveredLabels">>, i), ValueAt(j, i))],
                      NoDefaults)

TargetsFields == <<"activeTargets", "droppedTargets">>

TargetsField(k, v) ==
    IF k = "activeTargets" THEN
        VecDeserialize(v,
                       [i \in DOMAIN v.a |-> ActiveTargetDeserialize(v.a[i])])
    ELSE VecDeserialize(v, [i \in DOMAIN v.a |-> DroppedTargetDeserialize(v.a[i])])

\* Targets without #[serde(deny_unknown_fields)]
TargetsDeserializeLenient(j) ==
    StructDeserialize(j, TargetsFields, {}, FALSE,
                      [i \in Entries(j) |-> TargetsField(KeyAt(j, TargetsFields, i), ValueAt(j, i))],
                      [activeTargets |-> <<>>, droppedTargets |-> <<>>])

\* Targets without #[serde(default)] on its fields
TargetsDeserializeRequired(j) ==
    StructDeserialize(j, TargetsFields, {"activeTargets", "droppedTargets"}, TRUE,
                      [i \in Entries(j) |-> TargetsField(KeyAt(j, TargetsFields, i), ValueAt(j, i))],
                      NoDefaults)

\* #[serde(deny_unknown_fields)] struct Targets, both fields #[serde(default)]
TargetsDeserialize(j) ==
    StructDeserialize(j, TargetsFields, {}, TRUE,
                      [i \in Entries(j) |-> TargetsField(KeyAt(j, TargetsFields, i), ValueAt(j, i))],
                      [activeTargets |-> <<>>, droppedTargets |-> <<>>])

\* derived Serialize of Targets: both fields, always
TargetsSerializations(t) ==
    {JObj(<<<<"activeTargets", a>>, <<"droppedTargets", d>>>>) :
        a \in VecSerializations([i \in DOMAIN t.activeTargets |->
                                    ActiveTargetSerializations(t.activeTargets[i])]),
        d \in VecSerializations([i \in DOMAIN t.droppedTargets |->
                  {JObj(<<<<"discoveredLabels", l>>>>) :
                      l \in MapSerializations(t.droppedTargets[i].discoveredLabels)}])}

(***************************************************************************)
(* AlertManagers.  AlertManager's visit_map is written by hand: the only   *)
(* key is "url", a null value leaves the url unset.                        *)
(***************************************************************************)
\* Some of a decoded value
WrapSome(r) == IF r.ok THEN Ok(SomeValue(r.v)) ELSE r

\* De<Option<Url>>: null is None, a string is parsed
OptionUrlDeserialize(j) == IF j.t = "null" THEN Ok(NoneValue) ELSE WrapSome(UrlDeserialize(j))

\* the loop of visit_map with a Field that matches url in every case
RECURSIVE AlertManagerVisitAnyCase(_, _)
AlertManagerVisitAnyCase(o, n) ==
    IF n = 0 THEN Ok(NoneValue)
    ELSE LET before == AlertManagerVisitAnyCase(o, n - 1)
         IN  IF ~before.ok THEN before
             ELSE IF o[n][1] \notin {"url", "URL", "Url"} THEN Err("unknown field")
             ELSE IF before.v.some THEN Err("duplicate field url")
             ELSE OptionUrlDeserialize(o[n][2])

\* the state of the loop of visit_map after the first n fields: the url read
\* so far, or the error that ended the loop
RECURSIVE AlertManagerVisit(_, _)
AlertManagerVisit(o, n) ==
    IF n = 0 THEN Ok(NoneValue)
    ELSE LET before == AlertManagerVisit(o, n - 1)
         IN  IF ~before.ok THEN before
             ELSE IF o[n][1] # "url" THEN Err("unknown field")
             ELSE IF before.v.some THEN Err("duplicate field url")
             ELSE OptionUrlDeserialize(o[n][2])

\* url.ok_or_else(|| de::Error::missing_field("url"))
AlertManagerEnd(url) ==
    IF ~url.ok THEN url
    ELSE IF ~url.v.some THEN Err("missing field url")
    ELSE Ok([url |-> url.v.val])

AlertManagerDeserialize(j) ==
    IF j.t # "obj" THEN Err("invalid type")
    ELSE AlertManagerEnd(AlertManagerVisit(j.o, Len(j.o)))

\* impl Serialize for AlertManager
AlertManagerSerialize(am) == JObj(<<<<"url", JStr(am.url)>>>>)

AlertManagersFields == <<"activeAlertmanagers", "droppedAlertmanagers">>

AlertManagersField(k, v) ==
        VecDeserialize(v,
                       [i \in DOMAIN v.a |-> AlertManagerDeserialize(v.a[i])])

\* AlertManagers without #[serde(deny_unknown_fields)]
AlertManagersDeserializeLenient(j) ==
    StructDeserialize(j, AlertManagersFields, {}, FALSE,
                      [i \in Entries(j) |->
                          AlertManagersField(KeyAt(j, AlertManagersFields, i), ValueAt(j, i))],
                      [activeAlertmanagers |-> <<>>, droppedAlertmanagers |-> <<>>])

\* #[serde(deny_unknown_fields)] struct AlertManagers, both fields #[serde(default)]
AlertManagersDeserialize(j) ==
    StructDeserialize(j, AlertManagersFields, {}, TRUE,
                      [i \in Entries(j) |->
                          AlertManagersField(KeyAt(j, AlertManagersFields, i), ValueAt(j, i))],
                      [activeAlertmanagers |-> <<>>, droppedAlertmanagers |-> <<>>])

(***************************************************************************)
(* Snapshot, Config, Series, LabelsOrValues, Metric.                       *)
(***************************************************************************)
StringField(k, v) == StringDeserialize(v)

\* struct Snapshot { name: String }
SnapshotDeserialize(j) ==
    StructDeserialize(j, <<"name">>, {"name"}, FALSE,
                      [i \in Entries(j) |-> StringField(KeyAt(j, <<"name">>, i), ValueAt(j, i))],
                      NoDefaults)

\* Config with #[serde(deny_unknown_fields)]
ConfigDeserializeStrict(j) ==
    StructDeserialize(j, <<"yaml">>, {"yaml"}, TRUE,
                      [i \in Entries(j) |-> StringField(KeyAt(j, <<"yaml">>, i), ValueAt(j, i))],
                      NoDefaults)

\* struct Config { yaml: String }
ConfigDeserialize(j) ==
    StructDeserialize(j, <<"yaml">>, {"yaml"}, FALSE,
                      [i \in Entries(j) |-> StringField(KeyAt(j, <<"yaml">>, i), ValueAt(j, i))],
                      NoDefaults)

\* struct Metric { #[serde(flatten)] labels }: the whole object is the label map
MetricDeserialize(j) == MapDeserialize(j)

\* struct Series(Vec<Metric>)
SeriesDeserialize(j) == VecDeserialize(j, [i \in DOMAIN j.a |-> MetricDeserialize(j.a[i])])

\* LabelsOrValues with the strings pushed at the front
LabelsOrValuesDeserializeReversed(j) ==
    IF j.t # "arr" THEN Err("invalid type")
    ELSE VecDeserialize(j, [i \in DOMAIN j.a |-> StringDeserialize(j.a[Len(j.a) + 1 - i])])

\* struct LabelsOrValues(Vec<String>)
LabelsOrValuesDeserialize(j) ==
        VecDeserialize(j,
                       [i \in DOMAIN j.a |-> StringDeserialize(j.a[i])])

\* HashMap<String, String> of the Flags variant
FlagsDeserialize(j) == MapDeserialize(j)

(***************************************************************************)
(* Expression: adjacently tagged by resultType, content in result.         *)
(***************************************************************************)
VecSampleDeserialize(j) == VecDeserialize(j, [i \in DOMAIN j.a |-> SampleDeserialize(j.a[i])])

InstantField(k, v) == IF k = "metric" THEN MetricDeserialize(v) ELSE SampleDeserialize(v)

\* struct Instant { metric, #[serde(rename = "value")] sample }
InstantDeserialize(j) ==
    StructDeserialize(j, <<"metric", "value">>, {"metric", "value"}, FALSE,
                      [i \in Entries(j) |->
                          InstantField(KeyAt(j, <<"metric", "value">>, i), ValueAt(j, i))],
                      NoDefaults)

RangeField(k, v) == IF k = "metric" THEN MetricDeserialize(v) ELSE VecSampleDeserialize(v)

\* struct Range { metric, #[serde(rename = "values")] samples }
RangeDeserialize(j) ==
    StructDeserialize(j, <<"metric", "values">>, {"metric", "values"}, FALSE,
                      [i \in Entries(j) |->
                          RangeField(KeyAt(j, <<"metric", "values">>, i), ValueAt(j, i))],
                      NoDefaults)

\* the variant of a resultType value, with #[serde(other)] on Scalar: a
\* value that names no variant is taken as scalar
ExpressionVariantOther(j) ==
    IF j.t # "str" THEN Err("invalid type")
    ELSE IF j.s = <<"s", "t", "r", "i", "n", "g">> THEN Ok("String")
    ELSE IF j.s = <<"v", "e", "c", "t", "o", "r">> THEN Ok("Instant")
    ELSE IF j.s = <<"m", "a", "t", "r", "i", "x">> THEN Ok("Range")
    ELSE Ok("Scalar")

\* the variant a resultType value names
ExpressionVariant(j) ==
    IF j.t # "str" THEN Err("invalid type")
    ELSE IF j.s = <<"s", "c", "a", "l", "a", "r">> THEN Ok("Scalar")
    ELSE IF j.s = <<"s", "t", "r", "i", "n", "g">> THEN Ok("String")
    ELSE IF j.s = <<"v", "e", "c", "t", "o", "r">> THEN Ok("Instant")
    ELSE IF j.s = <<"m", "a", "t", "r", "i", "x">> THEN Ok("Range")
    ELSE Err("unknown variant")

\* the decoders of Instant and Range exchanged between vector and matrix
ExpressionContentExchanged(variant, j) ==
    IF variant = "Scalar" THEN SampleDeserialize(j)
    ELSE IF variant = "String" THEN StringSampleDeserialize(j)
    ELSE IF variant = "Instant"
    THEN VecDeserialize(j, [i \in DOMAIN j.a |-> RangeDeserialize(j.a[i])])
    ELSE VecDeserialize(j, [i \in DOMAIN j.a |-> InstantDeserialize(j.a[i])])

\* the decoder of result that the variant selects
ExpressionContent(variant, j) ==
    IF variant = "Scalar" THEN SampleDeserialize(j)
    ELSE IF variant = "String" THEN StringSampleDeserialize(j)
    ELSE IF variant = "Instant" THEN
        VecDeserialize(j,
                       [i \in DOMAIN j.a |-> InstantDeserialize(j.a[i])])
    ELSE VecDeserialize(j, [i \in DOMAIN j.a |-> RangeDeserialize(j.a[i])])

\* the value of the variant, unless the content failed or a field follows it
ExpressionEnd(variant, content, after) ==
    IF ~content.ok THEN content
    ELSE IF after # "" THEN Err(after)
    ELSE Ok([variant |-> variant, result |-> content.v])

\* what surrounds the content: the error raised before the tag is read, the
\* tag, the error raised between the tag and the content, the content, and the
\* error raised after it ("" when none)
Parts(err, tag, before, content, after) ==
    [err |-> err, tag |-> tag, before |-> before, content |-> content, after |-> after]

\* visit_seq of the adjacently tagged enum: the tag, then the content
ExpressionSeqParts(a) ==
    IF Len(a) = 0 THEN Parts("invalid length", JNull, "", JNull, "")
    ELSE IF Len(a) = 1 THEN Parts("", a[1], "invalid length", JNull, "")
    ELSE Parts("", a[1], "", a[2], IF Len(a) > 2 THEN "invalid length" ELSE "")

\* visit_map of the adjacently tagged enum, on the fields named resultType or
\* result (other keys are skipped): the tag and the content may come in either
\* order and neither may repeat
ExpressionRelevantParts(rel) ==
    IF Len(rel) = 0 THEN Parts("missing field resultType", JNull, "", JNull, "")
    ELSE IF rel[1][1] = "resultType"
    THEN IF Len(rel) = 1 THEN Parts("", rel[1][2], "missing field result", JNull, "")
         ELSE IF rel[2][1] = "resultType"
         THEN Parts("", rel[1][2], "duplicate field resultType", JNull, "")
         ELSE Parts("", rel[1][2], "", rel[2][2], IF Len(rel) > 2 THEN "duplicate field" ELSE "")
    ELSE IF Len(rel) = 1 THEN Parts("missing field resultType", JNull, "", JNull, "")
    ELSE IF rel[2][1] = "result" THEN Parts("duplicate field result", JNull, "", JNull, "")
    ELSE Parts("", rel[2][2], "", rel[1][2], IF Len(rel) > 2 THEN "duplicate field" ELSE "")

ExpressionMapParts(o) ==
    ExpressionRelevantParts(SelectSeq(o, LAMBDA f : f[1] \in {"resultType", "result"}))

\* the content read under the tag
ExpressionAfterTag(tag, p) ==
    IF ~tag.ok THEN tag
    ELSE IF p.before # "" THEN Err(p.before)
    ELSE ExpressionEnd(tag.v, ExpressionContent(tag.v, p.content), p.after)

ExpressionTagged(p) ==
    IF p.err # "" THEN Err(p.err) ELSE ExpressionAfterTag(ExpressionVariant(p.tag), p)

\* #[serde(tag = "resultType", content = "result")] enum Expression
ExpressionDeserialize(j) ==
    IF j.t = "arr" THEN ExpressionTagged(ExpressionSeqParts(j.a))
    ELSE IF j.t = "obj" THEN ExpressionTagged(ExpressionMapParts(j.o))
    ELSE Err("invalid type")

(***************************************************************************)
(* Data: #[serde(untagged)], the variants tried in declaration order.      *)
(***************************************************************************)
Variant(name, r) == IF r.ok THEN Ok([variant |-> name, val |-> r.v]) ELSE r

\* the variants with LabelsOrValues declared before Series
DataVariantsLabelsFirst(j) ==
    <<Variant("Expression", ExpressionDeserialize(j)),
      Variant("LabelsOrValues", LabelsOrValuesDeserialize(j)),
      Variant("Series", SeriesDeserialize(j)),
      Variant("Targets", TargetsDeserialize(j)),
      Variant("AlertManagers", AlertManagersDeserialize(j)),
      Variant("Config", ConfigDeserialize(j)),
      Variant("Snapshot", SnapshotDeserialize(j)),
      Variant("Flags", FlagsDeserialize(j))>>

\* what each variant of Data makes of the value, in declaration order
DataVariants(j) ==
    <<Variant("Expression", ExpressionDeserialize(j)),
      Variant("Series", SeriesDeserialize(j)),
      Variant("LabelsOrValues", LabelsOrValuesDeserialize(j)),
      Variant("Targets", TargetsDeserialize(j)),
      Variant("AlertManagers", AlertManagersDeserialize(j)),
      Variant("Config", ConfigDeserialize(j)),
      Variant("Snapshot", SnapshotDeserialize(j)),
      Variant("Flags", FlagsDeserialize(j))>>

\* derived Serialize of Expression: resultType with the variant's name, then
\* result with the variant's content
ExpressionSerializations(e) ==
    IF e.variant = "Scalar"
    THEN {JObj(<<<<"resultType", JStr(<<"s", "c", "a", "l", "a", "r">>)>>,
                 <<"result", SampleSerialize(e.result)>>>>)}
    ELSE IF e.variant = "String"
    THEN {JObj(<<<<"resultType", JStr(<<"s", "t", "r", "i", "n", "g">>)>>,
                 <<"result", StringSampleSerialize(e.result)>>>>)}
    ELSE IF e.variant = "Instant"
    THEN {JObj(<<<<"resultType", JStr(<<"v", "e", "c", "t", "o", "r">>)>>, <<"result", r>>>>) :
             r \in VecSerializations([i \in DOMAIN e.result |->
                       {JObj(<<<<"metric", m>>,
                               <<"value", SampleSerialize(e.result[i].value)>>>>) :
                           m \in MapSerializations(e.result[i].metric)}])}
    ELSE {JObj(<<<<"resultType", JStr(<<"m", "a", "t", "r", "i", "x">>)>>, <<"result", r>>>>) :
             r \in VecSerializations([i \in DOMAIN e.result |->
                       {JObj(<<<<"metric", m>>,
                               <<"values", JArr([h \in DOMAIN e.result[i].values |->
                                                   SampleSerialize(e.result[i].values[h])])>>>>) :
                           m \in MapSerializations(e.result[i].metric)}])}

\* derived Serialize of the untagged Data: the content of the variant
DataSerializations(d) ==
    IF d.variant = "Expression" THEN ExpressionSerializations(d.val)
    ELSE IF d.variant = "Series"
    THEN VecSerializations([i \in DOMAIN d.val |-> MapSerializations(d.val[i])])
    ELSE IF d.variant = "LabelsOrValues" THEN {JArr([i \in DOMAIN d.val |-> JStr(d.val[i])])}
    ELSE IF d.variant = "Targets" THEN TargetsSerializations(d.val)
    ELSE IF d.variant = "AlertManagers"
    THEN {JObj(<<<<"activeAlertmanagers",
                   JArr([i \in DOMAIN d.val.activeAlertmanagers |->
                            AlertManagerSerialize(d.val.activeAlertmanagers[i])])>>,
                 <<"droppedAlertmanagers",
                   JArr([i \in DOMAIN d.val.droppedAlertmanagers |->
                            AlertManagerSerialize(d.val.droppedAlertmanagers[i])])>>>>)}
    ELSE IF d.variant = "Config" THEN {JObj(<<<<"yaml", JStr(d.val.yaml)>>>>)}
    ELSE IF d.variant = "Snapshot" THEN {JObj(<<<<"name", JStr(d.val.name)>>>>)}
    ELSE MapSerializations(d.val)

\* the first variant that accepts, or the untagged enum's error
FirstOk(attempts) ==
    LET oks == {i \in DOMAIN attempts : attempts[i].ok}
    IN  IF oks = {} THEN Err("data did not match any variant of untagged enum Data")
        ELSE attempts[Min(oks)]

DataDeserialize(j) == FirstOk(DataVariants(j))

(***************************************************************************)
(* ApiResult: internally tagged by status; the other fields go to the      *)
(* struct of the variant the tag names.                                    *)
(***************************************************************************)
\* Option<Data>: null is None, anything else goes to the resolver
OptionDataDeserialize(j) == IF j.t = "null" THEN Ok(NoneValue) ELSE WrapSome(DataDeserialize(j))

ApiOkFields == <<"data", "warnings">>

ApiErrFields == <<"errorType", "error", "data", "warnings">>

ApiField(k, v) ==
    IF k = "data" THEN OptionDataDeserialize(v)
    ELSE IF k = "warnings" THEN
        VecDeserialize(v,
                       [i \in DOMAIN v.a |-> StringDeserialize(v.a[i])])
    ELSE StringDeserialize(v)

\* struct ApiOk without #[serde(default)] on warnings
ApiOkDeserializeRequired(j) ==
    StructDeserialize(j, ApiOkFields, {"warnings"}, FALSE,
                      [i \in Entries(j) |-> ApiField(KeyAt(j, ApiOkFields, i), ValueAt(j, i))],
                      [data |-> NoneValue])

\* struct ApiOk
ApiOkDeserialize(j) ==
    StructDeserialize(j, ApiOkFields, {}, FALSE,
                      [i \in Entries(j) |-> ApiField(KeyAt(j, ApiOkFields, i), ValueAt(j, i))],
                      [data |-> NoneValue, warnings |-> <<>>])

\* struct ApiErr with #[serde(default)] on errorType and error
ApiErrDeserializeDefaulted(j) ==
    StructDeserialize(j, ApiErrFields, {}, FALSE,
                      [i \in Entries(j) |-> ApiField(KeyAt(j, ApiErrFields, i), ValueAt(j, i))],
                      [errorType |-> <<>>, error |-> <<>>, data |-> NoneValue,
                       warnings |-> <<>>])

\* struct ApiErr with #[serde(skip)] on data
ApiErrDeserializeSkipData(j) ==
    StructDeserialize(JObj(SelectSeq(j.o, LAMBDA f : f[1] # "data")), ApiErrFields,
                      {"errorType", "error"}, FALSE,
                      [i \in DOMAIN SelectSeq(j.o, LAMBDA f : f[1] # "data") |->
                          ApiField(SelectSeq(j.o, LAMBDA f : f[1] # "data")[i][1],
                                   SelectSeq(j.o, LAMBDA f : f[1] # "data")[i][2])],
                      [data |-> NoneValue, warnings |-> <<>>])

\* struct ApiErr
ApiErrDeserialize(j) ==
    StructDeserialize(j, ApiErrFields, {"errorType", "error"}, FALSE,
                      [i \in Entries(j) |-> ApiField(KeyAt(j, ApiErrFields, i), ValueAt(j, i))],
                      [data |-> NoneValue, warnings |-> <<>>])

\* the variant a status value names
ApiResultVariant(j) ==
    IF j.t # "str" THEN Err("invalid type")
    ELSE IF j.s = <<"s", "u", "c", "c", "e", "s", "s">> THEN Ok("ApiOk")
    ELSE IF j.s = <<"e", "r", "r", "o", "r">> THEN Ok("ApiErr")
    ELSE Err("unknown variant")

\* the tag read and the rest of the envelope: `after` is the error a second
\* status raises ("" when none)
TaggedContent(tag, after, content) ==
    IF ~tag.ok THEN tag
    ELSE IF after # "" THEN Err(after)
    ELSE Ok([tag |-> tag.v, content |-> content])

\* the tag of the envelope and the rest of it, or the error of reading the tag
ApiResultTagged(j) ==
    IF j.t = "obj"
    THEN LET tags == {i \in DOMAIN j.o : j.o[i][1] = "status"}
         IN  IF tags = {} THEN Err("missing field status")
             ELSE TaggedContent(ApiResultVariant(j.o[Min(tags)][2]),
                                IF Cardinality(tags) > 1 THEN "duplicate field status" ELSE "",
                                JObj(SelectSeq(j.o, LAMBDA f : f[1] # "status")))
    ELSE IF j.t = "arr"
    THEN IF Len(j.a) = 0 THEN Err("invalid length")
         ELSE TaggedContent(ApiResultVariant(j.a[1]), "", JArr(Tail(j.a)))
    ELSE Err("invalid type")

\* the struct of the variant the tag names
ApiResultContent(tagged) ==
    IF ~tagged.ok THEN tagged
    ELSE IF tagged.v.tag = "ApiOk" THEN Variant("ApiOk", ApiOkDeserialize(tagged.v.content))
    ELSE Variant("ApiErr", ApiErrDeserialize(tagged.v.content))

\* #[serde(tag = "status")] enum ApiResult
ApiResultDeserialize(j) == ApiResultContent(ApiResultTagged(j))

(***************************************************************************)
(* The Rules and Alerts shapes the specification lists between Targets and *)
(* AlertManagers.  Data has no such variants; these are the decoders the   *)
(* specification describes: an object whose only key is groups (alerts),   *)
(* holding an array of objects.                                            *)
(***************************************************************************)
ObjectDeserialize(j) == IF j.t = "obj" THEN Ok(j.o) ELSE Err("invalid type")

GroupsField(k, v) == VecDeserialize(v, [i \in DOMAIN v.a |-> ObjectDeserialize(v.a[i])])

RulesDeserialize(j) ==
    StructDeserialize(j, <<"groups">>, {"groups"}, TRUE,
                      [i \in Entries(j) |-> GroupsField(KeyAt(j, <<"groups">>, i), ValueAt(j, i))],
                      NoDefaults)

AlertsDeserialize(j) ==
    StructDeserialize(j, <<"alerts">>, {"alerts"}, TRUE,
                      [i \in Entries(j) |-> GroupsField(KeyAt(j, <<"alerts">>, i), ValueAt(j, i))],
                      NoDefaults)

\* the ten decoders in the order the specification gives
SpecifiedVariants(j) ==
    <<Variant("Expression", ExpressionDeserialize(j)),
      Variant("Series", SeriesDeserialize(j)),
      Variant("LabelsOrValues", LabelsOrValuesDeserialize(j)),
      Variant("Targets", TargetsDeserialize(j)),
      Variant("Rules", RulesDeserialize(j)),
      Variant("Alerts", AlertsDeserialize(j)),
      Variant("AlertManagers", AlertManagersDeserialize(j)),
      Variant("Config", ConfigDeserialize(j)),
      Variant("Snapshot", SnapshotDeserialize(j)),
      Variant("Flags", FlagsDeserialize(j))>>

(***************************************************************************)
(* Inputs of the resolver and of the envelope: scalars, arrays of at most  *)
(* MaxElems elements and objects of at most MaxFields fields.              *)
(***************************************************************************)
One == Fin(FALSE, 1, 0)

StrScalar == <<"s", "c", "a", "l", "a", "r">>

StrInfo == <<"i", "n", "f", "o">>

StrContent == <<"C", "O", "N", "T", "E", "N", "T">>

StrHttpUrl == <<"h", "t", "t", "p", ":", "/", "/", "h", ":", "9", "/", "m">>

StrScrape == <<"2", "0", "1", "7", "-", "0", "1", "-", "1", "7", "T", "1", "5", ":",
               "0", "7", ":", "4", "4", ".", "7", "2", "+", "0", "1", ":", "0", "0">>

JobLabels == JObj(<<<<"job", JStr(<<"p">>)>>>>)

SampleOne == JArr(<<JNum(One), JStr(<<"1">>)>>)

ActiveTargetJson ==
    JObj(<<<<"discoveredLabels", JobLabels>>, <<"labels", JobLabels>>,
           <<"scrapeUrl", JStr(StrHttpUrl)>>, <<"lastError", JStr(<<>>)>>,
           <<"lastScrape", JStr(StrScrape)>>, <<"health", JStr(<<"u", "p">>)>>>>)

AlertManagerJson == JObj(<<<<"url", JStr(StrHttpUrl)>>>>)

FieldInputs ==
    {<<"resultType", JStr(StrScalar)>>, <<"resultType", JStr(StrInfo)>>,
     <<"result", SampleOne>>, <<"result", JStr(<<"1">>)>>,
     <<"activeTargets", JArr(<<>>)>>, <<"activeTargets", JArr(<<ActiveTargetJson>>)>>,
     <<"droppedTargets", JArr(<<>>)>>,
     <<"activeAlertmanagers", JArr(<<AlertManagerJson>>)>>,
     <<"droppedAlertmanagers", JArr(<<>>)>>,
     <<"yaml", JStr(StrContent)>>, <<"yaml", JNum(One)>>,
     <<"name", JStr(StrInfo)>>,
     <<"groups", JArr(<<>>)>>, <<"alerts", JArr(<<>>)>>,
     <<"groups", JArr(<<JObj(<<<<"name", JStr(StrInfo)>>,
                               <<"rules", JArr(<<JObj(<<<<"type",
                                   JStr(<<"a", "l", "e", "r", "t", "i", "n", "g">>)>>>>)>>)>>>>)>>)>>,
     <<"log.level", JStr(StrInfo)>>, <<"log.level", JStr(<<"1", "0", "s">>)>>,
     <<"log.level", JNum(One)>>,
     <<"alertmanager.timeout", JStr(<<"1", "0", "s">>)>>}

ElemInputs ==
    {JStr(StrInfo), JStr(StrScalar), JObj(<<>>), JobLabels, JArr(<<>>), SampleOne, JNum(One)}

RECURSIVE SeqsUpTo(_, _)
SeqsUpTo(S, n) ==
    IF n = 0 THEN {<<>>}
    ELSE LET shorter == SeqsUpTo(S, n - 1)
         IN  shorter \cup {Append(q, x) : q \in {y \in shorter : Len(y) = n - 1}, x \in S}

\* expressions: every resultType with every result, in both orders of the two
\* keys; the results are samples, vectors of instants and matrices of ranges
ExpressionInputs ==
    LET instant(job, v) ==
            JObj(<<<<"metric", JObj(<<<<"job", JStr(job)>>>>)>>,
                   <<"value", JArr(<<JNum(One), JStr(v)>>)>>>>)
        range(job, vs) ==
            JObj(<<<<"metric", JObj(<<<<"job", JStr(job)>>>>)>>,
                   <<"values", JArr([i \in DOMAIN vs |-> JArr(<<JNum(One), JStr(vs[i])>>)])>>>>)
        p == instant(<<"p">>, <<"1">>)
        q == instant(<<"q">>, <<"N", "a", "N">>)
        x == instant(<<"p">>, <<"a", "b", "c">>)
        r == range(<<"p">>, <<<<"1">>, <<"0">>>>)
        t == range(<<"q">>, <<<<"0">>, <<"1">>>>)
        tags == {StrScalar, <<"s", "t", "r", "i", "n", "g">>, <<"v", "e", "c", "t", "o", "r">>,
                 <<"m", "a", "t", "r", "i", "x">>, StrInfo, <<"S", "c", "a", "l", "a", "r">>,
                 <<>>}
        results == {SampleOne, JArr(<<JNum(One), JStr(<<"a", "b", "c">>)>>), JStr(<<"1">>),
                    JArr(<<>>), JArr(<<p>>), JArr(<<p, q>>), JArr(<<q, p>>), JArr(<<p, x>>),
                    JArr(<<r>>), JArr(<<r, t>>), JArr(<<t, r>>), JArr(<<p, r>>)}
    IN  {JObj(<<<<"resultType", JStr(tag)>>, <<"result", res>>>>) : tag \in tags, res \in results}
        \cup {JObj(<<<<"result", res>>, <<"resultType", JStr(tag)>>>>) :
                  tag \in tags, res \in results}

\* active targets: every lastError with every health and every lastScrape
ActiveTargetInputs ==
    LET errors == {JStr(<<>>), JStr(<<"e", "r", "r">>), JNull, JNum(One)}
        healths == {JStr(<<"u", "p">>), JStr(<<"d", "o", "w", "n">>), JStr(<<"U", "P">>),
                    JStr(<<"u", "n", "k", "n", "o", "w", "n">>), JStr(<<>>), JNull, JBool}
        scrapes == {JStr(StrScrape),
                    JStr(<<"2", "0", "2", "0", "-", "0", "2", "-", "2", "9", "T", "2", "3", ":",
                           "5", "9", ":", "0", "0", "Z">>),
                    JStr(<<"2", "0", "1", "7", "-", "0", "2", "-", "3", "0", "T", "1", "5", ":",
                           "0", "7", ":", "4", "4", "Z">>),
                    JStr(<<"2", "0", "1", "7", "-", "0", "1", "-", "1", "7">>),
                    JStr(<<"n", "o", "w">>), JStr(<<>>), JNum(One), JNull}
    IN  {JObj(<<<<"discoveredLabels", JobLabels>>, <<"labels", JObj(<<>>)>>,
                <<"scrapeUrl", JStr(StrHttpUrl)>>, <<"lastError", e>>,
                <<"lastScrape", s>>, <<"health", h>>>>) :
            e \in errors, h \in healths, s \in scrapes}

\* targets payloads: one target, and a target after the target of the test
TargetsInputs ==
    {JObj(<<<<"activeTargets", JArr(<<t>>)>>>>) : t \in ActiveTargetInputs}
    \cup {JObj(<<<<"droppedTargets", JArr(<<JObj(<<<<"discoveredLabels", JobLabels>>>>)>>)>>,
                  <<"activeTargets", JArr(<<ActiveTargetJson, t>>)>>>>) :
              t \in ActiveTargetInputs}

\* values handed to the AlertManager decoder: objects of url fields in
\* several spellings and with several values, and values that are no object
AlertManagerInputs ==
    LET other == <<"h", "t", "t", "p", ":", "/", "/", "h", ":", "9", "/", "n">>
        fields == {<<"url", JStr(StrHttpUrl)>>, <<"url", JStr(other)>>,
                   <<"URL", JStr(StrHttpUrl)>>, <<"Url", JStr(StrHttpUrl)>>,
                   <<"uri", JStr(StrHttpUrl)>>, <<"url", JStr(StrInfo)>>,
                   <<"url", JNull>>, <<"url", JNum(One)>>}
    IN  {JObj(o) : o \in SeqsUpTo(fields, MaxFields)}
        \cup {JNull, JStr(StrHttpUrl), JArr(<<JStr(StrHttpUrl)>>)}

DataInputs ==
    {JNull, JBool, JNum(One), JStr(StrInfo)}
    \cup TargetsInputs
    \cup {JArr(a) : a \in SeqsUpTo(ElemInputs, MaxElems)}
    \cup {JObj(o) : o \in SeqsUpTo(FieldInputs, MaxFields)}
    \cup ExpressionInputs

StatusInputs == {<<"s", "u", "c", "c", "e", "s", "s">>, <<"e", "r", "r", "o", "r">>}

StrMajor == <<"M", "a", "j", "o", "r">>

StrSeriouslyBad == <<"S", "e", "r", "i", "o", "u", "s", "l", "y", " ", "B", "a", "d">>

\* bodies of a status and a payload, error bodies with a warning and a
\* payload, and bodies in which each of error, errorType, data and warnings
\* is written or not, the status first or last
EnvelopeInputs ==
    {JObj(<<<<"status", JStr(st)>>, <<"data", d>>>>) : st \in StatusInputs, d \in DataInputs}
    \cup
    {JObj(<<<<"status", JStr(<<"e", "r", "r", "o", "r">>)>>, <<"error", JStr(StrMajor)>>,
            <<"errorType", JStr(StrSeriouslyBad)>>,
            <<"warnings", JArr(<<JStr(<<"w", "1">>)>>)>>, <<"data", d>>>>) : d \in DataInputs}
    \cup
    LET errors == {<<>>, <<<<"error", JStr(StrMajor)>>>>, <<<<"error", JNum(One)>>>>}
        types == {<<>>, <<<<"errorType", JStr(StrSeriouslyBad)>>>>, <<<<"errorType", JNull>>>>}
        datas == {<<>>, <<<<"data", JNull>>>>,
                  <<<<"data", JObj(<<<<"resultType", JStr(StrScalar)>>,
                                     <<"result", SampleOne>>>>)>>>>}
        warns == {<<>>, <<<<"warnings", JArr(<<>>)>>>>,
                  <<<<"warnings", JArr(<<JStr(<<"w", "1">>), JStr(<<"w", "2">>)>>)>>>>,
                  <<<<"warnings", JArr(<<JStr(<<"w", "2">>), JStr(<<"w", "1">>)>>)>>>>,
                  <<<<"warnings", JStr(<<"w", "1">>)>>>>,
                  <<<<"warnings", JArr(<<JNum(One)>>)>>>>}
    IN  {JObj(IF first THEN <<<<"status", JStr(st)>>>> \o e \o t \o d \o w
              ELSE e \o t \o d \o w \o <<<<"status", JStr(st)>>>>) :
            first \in BOOLEAN, st \in StatusInputs, e \in errors, t \in types,
            d \in datas, w \in warns}

\* values of a variant of Data built with its public constructors
PayloadValues(variant) ==
    LET job == [k \in {"job"} |-> <<"p">>]
        target == ActiveTargetDeserialize(ActiveTargetJson).v
        targets(t) == [activeTargets |-> <<t>>, droppedTargets |-> <<[discoveredLabels |-> job]>>]
        am == [url |-> StrHttpUrl]
    IN  IF variant = "Series"
        THEN {[variant |-> variant, val |-> v] : v \in {<<>>, <<job>>, <<job, job>>}}
        ELSE IF variant = "LabelsOrValues"
        THEN {[variant |-> variant, val |-> v] :
                 v \in {<<>>, <<StrInfo>>, <<StrInfo, StrScalar>>}}
        ELSE IF variant = "Targets"
        THEN {[variant |-> variant, val |-> v] :
                 v \in {[activeTargets |-> <<>>, droppedTargets |-> <<>>], targets(target),
                        targets([target EXCEPT !.lastError = SomeValue(<<"e", "r", "r">>)]),
                        targets([target EXCEPT !.lastError = SomeValue(<<>>)]),
                        targets([target EXCEPT !.health = "Unknown"])}}
        ELSE IF variant = "AlertManagers"
        THEN {[variant |-> variant, val |-> v] :
                 v \in {[activeAlertmanagers |-> <<>>, droppedAlertmanagers |-> <<>>],
                        [activeAlertmanagers |-> <<am>>, droppedAlertmanagers |-> <<am, am>>]}}
        ELSE IF variant = "Config"
        THEN {[variant |-> variant, val |-> [yaml |-> y]] : y \in {StrContent, <<>>}}
        ELSE IF variant = "Snapshot"
        THEN {[variant |-> variant, val |-> [name |-> n]] : n \in {StrInfo, <<>>}}
        ELSE IF variant = "Flags"
        THEN {[variant |-> variant, val |-> [k \in ks |-> StrInfo]] :
                 ks \in SUBSET {"log.level", "yaml", "name"}}
        ELSE {[variant |-> variant, val |-> [variant |-> "Scalar", result |-> MkSample(One, v)]] :
                 v \in {One, NAN}}

(***************************************************************************)
(* The client.  A call is an operation of a client with its protocol and   *)
(* its query timeout (milliseconds); a request is the method, the url and  *)
(* the pairs of the query string and of the form body.                     *)
(***************************************************************************)
PROQ_STATUS_CONFIG_URL == "/api/v1/status/config"

PROQ_STATUS_FLAGS_URL == "/api/v1/status/config"

\* the path each operation hands to get_slug
EndpointPath(operation) ==
    IF operation = "instant_query" THEN "/api/v1/query"
    ELSE IF operation = "range_query" THEN "/api/v1/query_range"
    ELSE IF operation = "series" THEN "/api/v1/series"
    ELSE IF operation = "label_names" THEN "/api/v1/labels"
    ELSE IF operation = "label_values" THEN "/api/v1/label/job/values"
    ELSE IF operation \in {"targets", "targets_with_state"} THEN "/api/v1/targets"
    ELSE IF operation \in {"rules", "rules_with_type"} THEN "/api/v1/rules"
    ELSE IF operation = "alerts" THEN "/api/v1/alerts"
    ELSE IF operation = "alert_managers" THEN "/api/v1/alertmanagers"
    ELSE IF operation = "config" THEN PROQ_STATUS_CONFIG_URL
    ELSE PROQ_STATUS_FLAGS_URL

\* get_slug: the scheme of the protocol, the host as authority, the path
get_slug(call, slug) ==
    [scheme |-> IF call.protocol = "HTTP" THEN "http" ELSE "https",
     authority |-> "localhost:9090",
     path |-> slug]

\* a field of a request struct as serde_urlencoded and the form serializer
\* write it: nothing for None
Param(k, o) == IF o.some THEN <<<<k, o.val>>>> ELSE <<>>

\* self.query_timeout.map(|t| t.as_secs().to_string())
TimeoutSecs(o) == IF o.some THEN SomeValue(o.val \div 1000) ELSE o

\* the request an operation sends
RequestOf(call) ==
    [method |-> IF call.operation = "series" THEN "POST" ELSE "GET",
     url |-> get_slug(call, EndpointPath(call.operation)),
     query |->
         IF call.operation = "instant_query"
         THEN <<<<"query", "up">>>> \o Param("time", call.time)
              \o Param("timeout", TimeoutSecs(call.query_timeout))
         ELSE IF call.operation = "range_query"
         THEN <<<<"query", "up">>>> \o Param("start", call.time) \o Param("end", call.time)
              \o Param("step", call.step) \o Param("timeout", TimeoutSecs(call.query_timeout))
         ELSE IF call.operation = "targets_with_state" THEN <<<<"state", "active">>>>
         ELSE IF call.operation = "rules_with_type" THEN <<<<"type", "alert">>>>
         ELSE <<>>,
     body |->
         IF call.operation = "series"
         THEN <<<<"match[]", "up">>>> \o Param("start", call.time) \o Param("end", call.time)
         ELSE <<>>]

Operations ==
    {"instant_query", "range_query", "series", "label_names", "label_values", "targets",
     "targets_with_state", "rules", "rules_with_type", "alerts", "alert_managers", "config",
     "flags"}

\* calls: every operation of every client, with and without times
ClientCalls ==
    [operation : Operations, protocol : {"HTTP", "HTTPS"},
     query_timeout : {[some |-> FALSE, val |-> 0], SomeValue(5000), SomeValue(1500)},
     time : {[some |-> FALSE, val |-> 0], SomeValue(1)},
     step : {[some |-> FALSE, val |-> 0], SomeValue(15)}]

\* what the exchange comes to: no response, a body that is no JSON, or a
\* body of JSON
Responses ==
    {[kind |-> "transport", body |-> JNull], [kind |-> "text", body |-> JNull]}
    \cup {[kind |-> "json", body |-> b] :
              b \in {JObj(<<>>), JNum(One), JObj(<<<<"status", JStr(<<"s", "u", "c", "c", "e", "s", "s">>)>>>>),
                     JObj(<<<<"status", JStr(<<"s", "u", "c", "c", "e", "s", "s">>)>>,
                            <<"data", JNum(One)>>>>),
                     JObj(<<<<"status", JStr(<<"s", "u", "c", "c", "e", "s", "s">>)>>,
                            <<"data", JArr(<<JStr(StrInfo)>>)>>>>),
                     JObj(<<<<"status", JStr(<<"e", "r", "r", "o", "r">>)>>,
                            <<"error", JStr(StrMajor)>>,
                            <<"errorType", JStr(StrSeriouslyBad)>>>>)}}

\* a ProqError of a class with a message
ProqErrorOf(class, message) == [ok |-> FALSE, v |-> [variant |-> class], err |-> message]

\* .recv_json().await.map_err(|e| ProqError::GenericError(e.to_string()))
RecvJson(response) ==
    IF response.kind = "transport" THEN ProqErrorOf("GenericError", "connection refused")
    ELSE IF response.kind = "text" THEN ProqErrorOf("GenericError", "expected value")
    ELSE IF ApiResultDeserialize(response.body).ok THEN ApiResultDeserialize(response.body)
    ELSE ProqErrorOf("GenericError", ApiResultDeserialize(response.body).err)

(***************************************************************************)
(* Inputs of the sample codecs.                                            *)
(***************************************************************************)
NumAlphabet == {"0", "1", ".", "-", "+", "e"}

RECURSIVE StringsUpTo(_)
StringsUpTo(n) ==
    IF n = 0 THEN {<<>>}
    ELSE LET shorter == StringsUpTo(n - 1)
         IN  shorter \cup {Append(s, c) : s \in {x \in shorter : Len(x) = n - 1}, c \in NumAlphabet}

Words == {PROQ_INFINITY, PROQ_NEGATIVE_INFINITY, PROQ_NAN,
          <<"i", "n", "f">>, <<"-", "i", "n", "f">>, <<"a", "b", "c">>,
          <<"f", "o", "o">>, <<"3", ".", "1", "4">>, <<"1", "0", "s">>}

ValueStrings == StringsUpTo(MaxStrLen) \cup Words

Epochs == {Fin(FALSE, 1, 0), Fin(FALSE, 1435781451, 0)}

SampleInputs ==
    {JArr(<<JNum(t), JStr(s)>>) : t \in Epochs, s \in ValueStrings}
    \cup {JArr(<<>>), JNull, JStr(<<"1">>), JObj(<<>>)}
    \cup {JArr(<<JNum(t)>>) : t \in Epochs}
    \cup {JArr(<<JStr(s)>>) : s \in Words}
    \cup {JArr(<<JNum(t), x>>) : t \in Epochs, x \in {JNum(F64Zero), JNull, JArr(<<>>)}}
    \cup {JArr(<<JStr(s), JStr(s)>>) : s \in Words}
    \cup {JArr(<<JNum(t), JStr(s), x>>) : t \in Epochs, s \in Words, x \in {JNull, JStr(<<"1">>)}}

(***************************************************************************)
(* The state machine: a call decodes `input`; a decoded sample may be      *)
(* encoded again and the encoding decoded.                                 *)
(***************************************************************************)
(***************************************************************************)
(* Concurrent decode calls: every task owns a buffer it never writes, and  *)
(* a call keeps the content it buffered and the tree it builds to itself.  *)
(***************************************************************************)
NumTasks == 2

MaxRuns == 2

\* the buffers the tasks decode: a scalar whose value is NaN, a list of
\* series, and a number that no variant accepts
ConcurrentInputs ==
    {JObj(<<<<"resultType", JStr(StrScalar)>>,
            <<"result", JArr(<<JNum(One), JStr(<<"N", "a", "N">>)>>)>>>>),
     JArr(<<JobLabels>>), JNum(One)}

\* a task that has made no call yet
IdleTask == [pc |-> "idle", content |-> JNull, result |-> Pending, prev |-> Pending, runs |-> 0]

\* the buffered content the variants of a call are tried on: a local of that
\* call, where a decoder with one buffer for all calls would read the same
\* content in every task
TaskContentShared(tasks, t) == tasks[1].content

TaskContent(tasks, t) == tasks[t].content

Init ==
    /\ \/ op \in {"sample", "string_sample"} /\ input \in SampleInputs
       \/ op = "data" /\ input \in DataInputs
       \/ op = "envelope" /\ input \in EnvelopeInputs
       \/ op = "alert_manager" /\ input \in AlertManagerInputs
       \/ /\ op = "payload"
          /\ \E variant \in {"Expression", "Series", "LabelsOrValues", "Targets",
                              "AlertManagers", "Config", "Snapshot", "Flags"} :
                 input \in PayloadValues(variant)
       \/ op = "client" /\ input \in ClientCalls
       \/ op = "concurrent" /\ input \in [1..NumTasks -> ConcurrentInputs]
    /\ pc = "start"
    /\ out = IF op = "concurrent" THEN [t \in 1..NumTasks |-> IdleTask] ELSE Pending
    /\ wire = JNull
    /\ out2 = Pending

DecodeSample ==
    /\ op = "sample"
    /\ pc = "start"
    /\ out' = SampleDeserialize(input)
    /\ pc' = "decoded"
    /\ UNCHANGED <<op, input, wire, out2>>

EncodeSample ==
    /\ op = "sample"
    /\ pc = "decoded"
    /\ out.ok
    /\ wire' = SampleSerialize(out.v)
    /\ pc' = "encoded"
    /\ UNCHANGED <<op, input, out, out2>>

RedecodeSample ==
    /\ op = "sample"
    /\ pc = "encoded"
    /\ out2' = SampleDeserialize(wire)
    /\ pc' = "redecoded"
    /\ UNCHANGED <<op, input, out, wire>>

DecodeStringSample ==
    /\ op = "string_sample"
    /\ pc = "start"
    /\ out' = StringSampleDeserialize(input)
    /\ pc' = "decoded"
    /\ UNCHANGED <<op, input, wire, out2>>

EncodeStringSample ==
    /\ op = "string_sample"
    /\ pc = "decoded"
    /\ out.ok
    /\ wire' = StringSampleSerialize(out.v)
    /\ pc' = "encoded"
    /\ UNCHANGED <<op, input, out, out2>>

RedecodeStringSample ==
    /\ op = "string_sample"
    /\ pc = "encoded"
    /\ out2' = StringSampleDeserialize(wire)
    /\ pc' = "redecoded"
    /\ UNCHANGED <<op, input, out, wire>>

\* the resolver applied to the value bound to data
DecodeData ==
    /\ op = "data"
    /\ pc = "start"
    /\ out' = DataDeserialize(input)
    /\ pc' = "decoded"
    /\ UNCHANGED <<op, input, wire, out2>>

\* serde_json::to_value on the Targets the resolver returned
EncodeTargets ==
    /\ op = "data"
    /\ pc = "decoded"
    /\ out.ok
    /\ out.v.variant = "Targets"
    /\ wire' \in TargetsSerializations(out.v.val)
    /\ pc' = "encoded"
    /\ UNCHANGED <<op, input, out, out2>>

\* serde_json::to_value on a payload value
EncodeData ==
    /\ op = "payload"
    /\ pc = "start"
    /\ wire' \in DataSerializations(input)
    /\ pc' = "encoded"
    /\ UNCHANGED <<op, input, out, out2>>

\* the resolver applied to the encoding of a payload value
RedecodeData ==
    /\ op = "payload"
    /\ pc = "encoded"
    /\ out2' = DataDeserialize(wire)
    /\ pc' = "redecoded"
    /\ UNCHANGED <<op, input, out, wire>>

\* an operation of the client up to the sending of its request
SendRequest ==
    /\ op = "client"
    /\ pc = "start"
    /\ wire' = RequestOf(input)
    /\ pc' = "sent"
    /\ UNCHANGED <<op, input, out, out2>>

\* the rest of the operation: the exchange ends and its outcome is returned
ReceiveResponse ==
    /\ op = "client"
    /\ pc = "sent"
    /\ \E response \in Responses :
           /\ out2' = response
           /\ out' = RecvJson(response)
    /\ pc' = "done"
    /\ UNCHANGED <<op, input, wire>>

\* serde_json::from_value::<AlertManager>
DecodeAlertManager ==
    /\ op = "alert_manager"
    /\ pc = "start"
    /\ out' = AlertManagerDeserialize(input)
    /\ pc' = "decoded"
    /\ UNCHANGED <<op, input, wire, out2>>

\* serde_json::from_str::<ApiResult> on a response body
DecodeEnvelope ==
    /\ op = "envelope"
    /\ pc = "start"
    /\ out' = ApiResultDeserialize(input)
    /\ pc' = "decoded"
    /\ UNCHANGED <<op, input, wire, out2>>

\* a task calls the decoder on its buffer: the untagged resolver first
\* buffers the whole value
BeginDecode(t) ==
    /\ op = "concurrent"
    /\ out[t].pc \in {"idle", "done"}
    /\ out[t].runs < MaxRuns
    /\ out' = [out EXCEPT ![t] = [pc |-> "buffered", content |-> input[t],
                                  result |-> Pending, prev |-> @.result,
                                  runs |-> @.runs + 1]]
    /\ UNCHANGED <<op, pc, input, wire, out2>>

\* the call tries the variants on what it buffered and returns a new tree
EndDecode(t) ==
    /\ op = "concurrent"
    /\ out[t].pc = "buffered"
    /\ out' = [out EXCEPT ![t] = [@ EXCEPT !.pc = "done", !.content = JNull,
                                            !.result = DataDeserialize(TaskContent(out, t))]]
    /\ UNCHANGED <<op, pc, input, wire, out2>>

Next ==
    \/ DecodeData
    \/ EncodeTargets
    \/ EncodeData
    \/ RedecodeData
    \/ DecodeEnvelope
    \/ DecodeAlertManager
    \/ SendRequest
    \/ ReceiveResponse
    \/ \E t \in 1..NumTasks : BeginDecode(t)
    \/ \E t \in 1..NumTasks : EndDecode(t)
    \/ DecodeSample
    \/ EncodeSample
    \/ RedecodeSample
    \/ DecodeStringSample
    \/ EncodeStringSample
    \/ RedecodeStringSample

Spec == Init /\ [][Next]_vars

(***************************************************************************)
(* Properties of the resolver.                                             *)
(***************************************************************************)
Decoded(o) == op = o /\ pc = "decoded"

IsVariant(r, name) == r.ok /\ r.v.variant = name

\* C1: for every value bound to data the resolver returns the result of the
\* first accepting decoder in the order Expression, SeriesList,
\* LabelOrValueList, Targets, Rules, Alerts, AlertManagers, Config, Snapshot,
\* FlagMap.
C1_SpecifiedOrder == Decoded("data") => out = FirstOk(SpecifiedVariants(input))

StrSuccess == <<"s", "u", "c", "c", "e", "s", "s">>

\* the value bound to data in the envelope
EnvelopeData == FirstOf(input.o, "data")

\* a success body that binds data, decoded
SuccessDecoded ==
    /\ Decoded("envelope")
    /\ FirstOf(input.o, "status") = JStr(StrSuccess)
    /\ "data" \in Keys(input.o)

\* keys that belong to a shape more specific than the flag map
SpecificKeys ==
    {"resultType", "result", "activeTargets", "droppedTargets", "activeAlertmanagers",
     "droppedAlertmanagers", "yaml", "name", "groups", "alerts"}

\* an object of string-valued flags, none named like a field of another shape
IsFlagObject(d) ==
    /\ d.t = "obj"
    /\ \A i \in DOMAIN d.o : d.o[i][2].t = "str" /\ d.o[i][1] \notin SpecificKeys

\* m holds exactly the pairs of o (the last value of a key written twice)
HoldsPairs(m, o) ==
    /\ DOMAIN m = {o[i][1] : i \in DOMAIN o}
    /\ \A i \in DOMAIN o :
          (\A h \in (i + 1)..Len(o) : o[h][1] # o[i][1]) => m[o[i][1]] = o[i][2].s

\* r is a success envelope whose data is the flag map of o
IsFlagsEnvelope(r, o) ==
    /\ IsVariant(r, "ApiOk")
    /\ r.v.val.warnings = <<>>
    /\ r.v.val.data.some
    /\ r.v.val.data.val.variant = "Flags"
    /\ HoldsPairs(r.v.val.data.val.val, o)

\* C2 as stated: a success envelope whose data is an object of string-valued
\* flags decodes to the flag map of exactly those pairs, the object without
\* any flag included.
C2_AnyFlagObject ==
    (SuccessDecoded /\ IsFlagObject(EnvelopeData)) => IsFlagsEnvelope(out, EnvelopeData.o)

\* C2: a success envelope whose data is an object of at least one
\* string-valued flag, none of them named like a field of a more specific
\* shape, decodes to the Flags variant holding exactly those pairs.
C2_FlagMap ==
    (SuccessDecoded /\ IsFlagObject(EnvelopeData) /\ EnvelopeData.o # <<>>)
        => IsFlagsEnvelope(out, EnvelopeData.o)

C2_Witness ==
    /\ SuccessDecoded
    /\ EnvelopeData =
           JObj(<<<<"alertmanager.timeout", JStr(<<"1", "0", "s">>)>>,
                  <<"log.level", JStr(StrInfo)>>>>)
    /\ IsFlagsEnvelope(out, EnvelopeData.o)
    /\ out.v.val.data.val.val["alertmanager.timeout"] = <<"1", "0", "s">>

\* C3 as stated: the empty object resolves to the Flags variant with an empty
\* map.
C3_EmptyObjectIsFlags ==
    (Decoded("data") /\ input = JObj(<<>>))
        => IsVariant(out, "Flags") /\ DOMAIN out.v.val = {}

\* C3: the empty object resolves to Targets with no active and no dropped
\* target, bare and as the data of a success envelope: Targets, whose two
\* fields default, accepts it before Flags is tried.
C3_EmptyObjectIsTargets ==
    /\ (Decoded("data") /\ input = JObj(<<>>))
           => /\ IsVariant(out, "Targets")
              /\ out.v.val.activeTargets = <<>>
              /\ out.v.val.droppedTargets = <<>>
    /\ (SuccessDecoded /\ EnvelopeData = JObj(<<>>))
           => /\ IsVariant(out, "ApiOk")
              /\ out.v.val.data.some
              /\ out.v.val.data.val.variant = "Targets"

C3_Witness ==
    /\ SuccessDecoded
    /\ EnvelopeData = JObj(<<>>)
    /\ out.v.val.data.val.val.activeTargets = <<>>

\* the object writes key k once, with a string value
StringOnce(o, k) == Count(o, k) = 1 /\ FirstOf(o, k).t = "str"

\* C4 as stated: Config only for the key set {yaml}, Snapshot only for the key
\* set {name}, and yaml or name beside another string-valued key resolves to
\* the Flags variant.
C4_ExactKeySets ==
    (Decoded("data") /\ input.t = "obj")
        => /\ IsVariant(out, "Config") => Keys(input.o) = {"yaml"}
           /\ IsVariant(out, "Snapshot") => Keys(input.o) = {"name"}
           /\ (/\ \E i \in DOMAIN input.o : input.o[i][1] \in {"yaml", "name"}
               /\ \E i \in DOMAIN input.o :
                     input.o[i][1] \notin {"yaml", "name"} /\ input.o[i][2].t = "str")
                  => IsVariant(out, "Flags")

\* C4: an object that does not carry both resultType and result resolves to
\* Config exactly when it writes yaml once with a string value, whatever its
\* other keys, and to Snapshot exactly when it does not but writes name once
\* with a string value; Config and Snapshot hold that string.
C4_ConfigSnapshot ==
    (Decoded("data") /\ input.t = "obj" /\ ~({"resultType", "result"} \subseteq Keys(input.o)))
        => /\ IsVariant(out, "Config") <=> StringOnce(input.o, "yaml")
           /\ IsVariant(out, "Config") => out.v.val.yaml = FirstOf(input.o, "yaml").s
           /\ IsVariant(out, "Snapshot")
                  <=> (~StringOnce(input.o, "yaml") /\ StringOnce(input.o, "name"))
           /\ IsVariant(out, "Snapshot") => out.v.val.name = FirstOf(input.o, "name").s

C4_Witness ==
    /\ Decoded("data")
    /\ input = JObj(<<<<"yaml", JStr(StrContent)>>, <<"log.level", JStr(StrInfo)>>>>)
    /\ IsVariant(out, "Config")
    /\ out.v.val.yaml = StrContent

\* C5: on an object with a key other than activeTargets and droppedTargets
\* the Targets decoder fails and the resolver does not return Targets; on an
\* object with a key other than activeAlertmanagers and droppedAlertmanagers
\* the AlertManagers decoder fails and the resolver does not return
\* AlertManagers.
C5_DenyUnknownFields ==
    (Decoded("data") /\ input.t = "obj")
        => /\ ~(Keys(input.o) \subseteq {"activeTargets", "droppedTargets"})
                  => ~TargetsDeserialize(input).ok /\ ~IsVariant(out, "Targets")
           /\ ~(Keys(input.o) \subseteq {"activeAlertmanagers", "droppedAlertmanagers"})
                  => ~AlertManagersDeserialize(input).ok /\ ~IsVariant(out, "AlertManagers")

C5_Witness ==
    /\ Decoded("data")
    /\ input = JObj(<<<<"activeAlertmanagers", JArr(<<AlertManagerJson>>)>>,
                      <<"yaml", JStr(StrContent)>>>>)
    /\ IsVariant(out, "Config")

(***************************************************************************)
(* Properties of the sample codecs.                                        *)
(***************************************************************************)
\* the input is a wire pair: a number and a string
IsWirePair(j) == j.t = "arr" /\ Len(j.a) = 2 /\ j.a[1].t = "num" /\ j.a[2].t = "str"

Sentinels == {PROQ_INFINITY, PROQ_NEGATIVE_INFINITY, PROQ_NAN}

\* C6: the value string of a numeric Sample decodes "Inf" to +infinity, "-Inf"
\* to -infinity and "NaN" to NaN, any other string that parses as a float to
\* that float ("3.14" to 314e-2), and every remaining string ("abc", any
\* string without a digit that is no spelling of infinity or NaN) fails with
\* the invalid-value error; the epoch is the first element.
C6_SampleValueDecoding ==
    (op = "sample" /\ pc # "start" /\ IsWirePair(input))
        => LET s == input.a[2].s
               sample(x) == Ok(MkSample(input.a[1].n, x))
           IN  /\ s = <<"I", "n", "f">> => out = sample(INFINITY)
               /\ s = <<"-", "I", "n", "f">> => out = sample(NEG_INFINITY)
               /\ s = <<"N", "a", "N">> => out = sample(NAN)
               /\ (s \notin Sentinels /\ ParseF64(s).ok) => out = sample(ParseF64(s).v)
               /\ (s \notin Sentinels /\ ~ParseF64(s).ok) => out = Err("invalid value")
               /\ s = <<"3", ".", "1", "4">> => out = sample(Fin(FALSE, 314, -2))
               /\ s = <<"-", "1", "e", "1">> => out = sample(Fin(TRUE, 1, 1))
               /\ s = <<"a", "b", "c">> => out = Err("invalid value")
               /\ (/\ \A i \in DOMAIN s : s[i] \notin Digits
                   /\ s \notin Sentinels \cup {<<"i", "n", "f">>, <<"-", "i", "n", "f">>,
                                               <<"+", "i", "n", "f">>})
                      => ~out.ok

C6_Witness ==
    /\ op = "sample"
    /\ pc = "decoded"
    /\ input = JArr(<<JNum(Fin(FALSE, 1435781451, 0)), JStr(<<"-", "I", "n", "f">>)>>)
    /\ out = Ok(MkSample(Fin(FALSE, 1435781451, 0), NEG_INFINITY))

\* two samples are equal: the same epoch and the same value, NaN taken as
\* equal to NaN
SameSample(x, y) ==
    /\ F64Eq(x.epoch, y.epoch)
    /\ F64Eq(x.value, y.value) \/ (x.value.k = "nan" /\ y.value.k = "nan")

\* C7: for every valid Sample wire pair, the encoding of the decoded Sample
\* decodes again to an equal Sample, and a sentinel value string comes back
\* as the same sentinel string.
C7_SampleRoundTrip ==
    (op = "sample" /\ pc = "redecoded" /\ IsWirePair(input))
        => /\ out2.ok
           /\ SameSample(out2.v, out.v)
           /\ input.a[2].s \in Sentinels => wire.a[2] = JStr(input.a[2].s)

\* C8: encoding a Sample emits a sequence of two elements, the epoch as a
\* number and the value as a string.
C8_SampleEncodesValueAsString ==
    (op = "sample" /\ pc = "encoded")
        => /\ wire.t = "arr"
           /\ Len(wire.a) = 2
           /\ wire.a[1] = JNum(out.v.epoch)
           /\ wire.a[2].t = "str"

\* C9: a Sample or StringSample decoded from a sequence of no element fails
\* with the missing-field error of the sample time; from a sequence of one
\* element it fails, with the missing-field error of the sample value when the
\* element is the time (a number); no sample is produced in either case.
C9_MissingElements ==
    (op \in {"sample", "string_sample"} /\ pc # "start" /\ input.t = "arr")
        => /\ Len(input.a) = 0 => out = Err("missing field sample time")
           /\ Len(input.a) = 1
                  => /\ ~out.ok
                     /\ input.a[1].t = "num" => out = Err("missing field sample value")

C9_Witness ==
    /\ op = "string_sample"
    /\ pc = "decoded"
    /\ input = JArr(<<JNum(One)>>)
    /\ out.err = "missing field sample value"

\* C10: a StringSample decoded from a wire pair holds the second element
\* unchanged, whatever the string: a sentinel, a numeric string or other text.
C10_StringSampleVerbatim ==
    (op = "string_sample" /\ pc # "start" /\ IsWirePair(input))
        => /\ out.ok
           /\ out.v.epoch = input.a[1].n
           /\ out.v.value = input.a[2].s

C10_Witness ==
    /\ op = "string_sample"
    /\ pc = "decoded"
    /\ input = JArr(<<JNum(One), JStr(<<"a", "b", "c">>)>>)
    /\ out = Ok(MkSample(One, <<"a", "b", "c">>))

(***************************************************************************)
(* Properties of the Expression decoder.                                   *)
(***************************************************************************)
\* the object writes resultType and result once each, the tag a string
IsTaggedObject(j) ==
    /\ j.t = "obj"
    /\ Len(j.o) = 2
    /\ Keys(j.o) = {"resultType", "result"}
    /\ FirstOf(j.o, "resultType").t = "str"

\* every element of the array r decodes, and vs holds the decoded elements in
\* the order of r
ElementsInOrder(r, rs, vs) ==
    /\ r.t = "arr"
    /\ \A i \in DOMAIN r.a : rs[i].ok
    /\ Len(vs) = Len(r.a)
    /\ \A i \in DOMAIN r.a : vs[i] = rs[i].v

\* C11: for an object of a resultType and a result, in either order, the tag
\* alone selects the decoder of result: the resolver returns an Expression
\* exactly when that decoder accepts result, as Scalar holding the Sample for
\* scalar, String holding the StringSample for string, Instant holding the
\* instants in wire order for vector and Range holding the ranges in wire
\* order for matrix.
C11_TagSelectsDecoder ==
    (Decoded("data") /\ IsTaggedObject(input))
        => LET tag == FirstOf(input.o, "resultType").s
               r == FirstOf(input.o, "result")
               e == out.v.val
               instants == [i \in DOMAIN r.a |-> InstantDeserialize(r.a[i])]
               ranges == [i \in DOMAIN r.a |-> RangeDeserialize(r.a[i])]
           IN  /\ tag = <<"s", "c", "a", "l", "a", "r">>
                      => /\ IsVariant(out, "Expression") <=> SampleDeserialize(r).ok
                         /\ IsVariant(out, "Expression")
                                => e.variant = "Scalar" /\ e.result = SampleDeserialize(r).v
               /\ tag = <<"s", "t", "r", "i", "n", "g">>
                      => /\ IsVariant(out, "Expression") <=> StringSampleDeserialize(r).ok
                         /\ IsVariant(out, "Expression")
                                => e.variant = "String" /\ e.result = StringSampleDeserialize(r).v
               /\ tag = <<"v", "e", "c", "t", "o", "r">>
                      => /\ IsVariant(out, "Expression")
                                <=> (r.t = "arr" /\ \A i \in DOMAIN r.a : instants[i].ok)
                         /\ IsVariant(out, "Expression")
                                => e.variant = "Instant" /\ ElementsInOrder(r, instants, e.result)
               /\ tag = <<"m", "a", "t", "r", "i", "x">>
                      => /\ IsVariant(out, "Expression")
                                <=> (r.t = "arr" /\ \A i \in DOMAIN r.a : ranges[i].ok)
                         /\ IsVariant(out, "Expression")
                                => e.variant = "Range" /\ ElementsInOrder(r, ranges, e.result)

\* the vector of the instant of job p with sample [1, "1"] and the instant of
\* job q with sample [1, "NaN"], in a success envelope
C11_Witness ==
    /\ SuccessDecoded
    /\ IsTaggedObject(EnvelopeData)
    /\ IsVariant(out, "ApiOk")
    /\ out.v.val.data.some
    /\ out.v.val.data.val.variant = "Expression"
    /\ out.v.val.data.val.val.variant = "Instant"
    /\ Len(out.v.val.data.val.val.result) = 2
    /\ out.v.val.data.val.val.result[1].metric["job"] = <<"p">>
    /\ out.v.val.data.val.val.result[1].value = MkSample(One, One)
    /\ out.v.val.data.val.val.result[2].metric["job"] = <<"q">>
    /\ out.v.val.data.val.val.result[2].value = MkSample(One, NAN)

ExpressionTags ==
    {<<"s", "c", "a", "l", "a", "r">>, <<"s", "t", "r", "i", "n", "g">>,
     <<"v", "e", "c", "t", "o", "r">>, <<"m", "a", "t", "r", "i", "x">>}

\* C12: an object with a resultType whose string is none of scalar, string,
\* vector and matrix is rejected by the Expression decoder, with the
\* unknown-variant error when resultType and result are written once each,
\* and the resolver returns no Expression for it.
C12_UnknownTagRejected ==
    (Decoded("data") /\ input.t = "obj"
     /\ \E i \in DOMAIN input.o :
           /\ input.o[i][1] = "resultType"
           /\ input.o[i][2].t = "str"
           /\ input.o[i][2].s \notin ExpressionTags)
        => /\ ~ExpressionDeserialize(input).ok
           /\ ~IsVariant(out, "Expression")
           /\ (Count(input.o, "resultType") = 1 /\ Count(input.o, "result") = 1)
                  => ExpressionDeserialize(input).err = "unknown variant"

C12_Witness ==
    /\ Decoded("data")
    /\ input = JObj(<<<<"resultType", JStr(StrInfo)>>, <<"result", SampleOne>>>>)
    /\ out = Err("data did not match any variant of untagged enum Data")

(***************************************************************************)
(* Properties of the targets.                                              *)
(***************************************************************************)
\* the objects written as elements of an activeTargets array of the input
WireTargets ==
    IF input.t # "obj" THEN {}
    ELSE {e \in UNION {{input.o[i][2].a[h] : h \in DOMAIN input.o[i][2].a} :
                          i \in {k \in DOMAIN input.o : /\ input.o[k][1] = "activeTargets"
                                                        /\ input.o[k][2].t = "arr"}} :
             e.t = "obj"}

\* the resolver returned Targets for an object whose activeTargets are objects
TargetsOf(state) ==
    /\ op = "data"
    /\ pc = state
    /\ input.t = "obj"
    /\ IsVariant(out, "Targets")
    /\ \A i \in DOMAIN out.v.val.activeTargets :
           FirstOf(input.o, "activeTargets").a[i].t = "obj"

\* C13: in the Targets the resolver returns, a target written with lastError
\* "" has an absent last_error and one written with a non-empty string has
\* that string; the encoding of every target has lastError exactly once, as a
\* string, which is "" for an absent last_error and is the string of the
\* input whenever the input wrote a string.
C13_LastErrorRoundTrip ==
    (TargetsOf("decoded") \/ TargetsOf("encoded"))
        => \A i \in DOMAIN out.v.val.activeTargets :
               LET j == FirstOf(FirstOf(input.o, "activeTargets").a[i].o, "lastError")
                   t == out.v.val.activeTargets[i]
                   w == FirstOf(wire.o, "activeTargets").a[i].o
               IN  /\ j = JStr(<<>>) => t.lastError = NoneValue
                   /\ (j.t = "str" /\ j.s # <<>>) => t.lastError = SomeValue(j.s)
                   /\ pc = "encoded"
                          => /\ Count(w, "lastError") = 1
                             /\ FirstOf(w, "lastError").t = "str"
                             /\ ~t.lastError.some => FirstOf(w, "lastError") = JStr(<<>>)
                             /\ j.t = "str" => FirstOf(w, "lastError") = j

\* a target written with lastError "", decoded as absent and encoded as ""
C13_Witness ==
    /\ TargetsOf("encoded")
    /\ Len(out.v.val.activeTargets) = 1
    /\ FirstOf(FirstOf(input.o, "activeTargets").a[1].o, "lastError") = JStr(<<>>)
    /\ out.v.val.activeTargets[1].lastError = NoneValue
    /\ FirstOf(FirstOf(wire.o, "activeTargets").a[1].o, "lastError") = JStr(<<>>)

\* the object writes each of the six fields of an active target once
HasTargetFields(e) ==
    /\ Len(e.o) = 6
    /\ Keys(e.o) = {ActiveTargetFields[i] : i \in DOMAIN ActiveTargetFields}

\* C14: a target object whose other five fields decode is decoded for every
\* string written as health: Up for "up", Down for "down" and Unknown for
\* every other string, "UP" and "" among them; the Targets the resolver
\* returns hold that health.
C14_HealthLenient ==
    /\ Decoded("data")
           => \A e \in WireTargets :
                  (/\ HasTargetFields(e)
                   /\ FirstOf(e.o, "health").t = "str"
                   /\ MapDeserialize(FirstOf(e.o, "discoveredLabels")).ok
                   /\ MapDeserialize(FirstOf(e.o, "labels")).ok
                   /\ UrlDeserialize(FirstOf(e.o, "scrapeUrl")).ok
                   /\ empty_string_is_none(FirstOf(e.o, "lastError")).ok
                   /\ rfc3339_to_date_time(FirstOf(e.o, "lastScrape")).ok)
                      => /\ ActiveTargetDeserialize(e).ok
                         /\ ActiveTargetDeserialize(e).v.health
                                = IF FirstOf(e.o, "health").s = <<"u", "p">> THEN "Up"
                                  ELSE IF FirstOf(e.o, "health").s = <<"d", "o", "w", "n">>
                                  THEN "Down"
                                  ELSE "Unknown"
    /\ TargetsOf("decoded")
           => \A i \in DOMAIN out.v.val.activeTargets :
                  LET h == FirstOf(FirstOf(input.o, "activeTargets").a[i].o, "health")
                  IN  h.t = "str"
                          => out.v.val.activeTargets[i].health
                                 = IF h.s = <<"u", "p">> THEN "Up"
                                   ELSE IF h.s = <<"d", "o", "w", "n">> THEN "Down"
                                   ELSE "Unknown"

\* a target written with health "UP" after one written with "up"
C14_Witness ==
    /\ TargetsOf("decoded")
    /\ Len(out.v.val.activeTargets) = 2
    /\ FirstOf(FirstOf(input.o, "activeTargets").a[1].o, "health") = JStr(<<"u", "p">>)
    /\ FirstOf(FirstOf(input.o, "activeTargets").a[2].o, "health") = JStr(<<"U", "P">>)
    /\ out.v.val.activeTargets[1].health = "Up"
    /\ out.v.val.activeTargets[2].health = "Unknown"

\* strings that are no RFC3339 timestamp: a word, nothing, a date without a
\* time, the 30th of February
NoTimestamps ==
    {<<"n", "o", "w">>, <<>>, <<"2", "0", "1", "7", "-", "0", "1", "-", "1", "7">>,
     <<"2", "0", "1", "7", "-", "0", "2", "-", "3", "0", "T", "1", "5", ":", "0", "7", ":",
       "4", "4", "Z">>}

\* the target objects of the input that write such a string as lastScrape
BadScrapeTargets ==
    {e \in WireTargets :
        \E i \in DOMAIN e.o : /\ e.o[i][1] = "lastScrape"
                              /\ e.o[i][2].t = "str"
                              /\ e.o[i][2].s \in NoTimestamps}

\* C16: when a target of the input writes a lastScrape string that is no
\* RFC3339 timestamp, the decoder of that target fails, the Targets decoder
\* fails on the input and the resolver does not return Targets.
C16_BadTimestampFails ==
    (Decoded("data") /\ BadScrapeTargets # {})
        => /\ \A e \in BadScrapeTargets : ~ActiveTargetDeserialize(e).ok
           /\ ~TargetsDeserialize(input).ok
           /\ ~IsVariant(out, "Targets")

\* the target of the test followed by a target scraped on the 30th of February
C16_Witness ==
    /\ Decoded("data")
    /\ BadScrapeTargets # {}
    /\ Len(FirstOf(input.o, "activeTargets").a) = 2
    /\ ActiveTargetDeserialize(FirstOf(input.o, "activeTargets").a[1]).ok
    /\ ActiveTargetDeserialize(FirstOf(input.o, "activeTargets").a[2]).err
           = "input is out of range"
    /\ out = Err("data did not match any variant of untagged enum Data")

SingleUrlField(j) ==
    /\ j.t = "obj"
    /\ Len(j.o) = 1
    /\ j.o[1][2].t = "str"
    /\ UrlParse(j.o[1][2].s).ok

\* C17 as stated: a single field named url, URL or Url with a valid URL
\* string decodes to the AlertManager of that URL.
C17_AnyCaseFieldName ==
    (Decoded("alert_manager") /\ SingleUrlField(input)
     /\ input.o[1][1] \in {"url", "URL", "Url"})
        => out = Ok([url |-> UrlParse(input.o[1][2].s).v])

\* C17: the field name is matched exactly: a single field with a valid URL
\* string decodes, to the AlertManager of that URL, exactly when its name is
\* url; under the names URL and Url it fails as an unknown field, and no
\* object with a field of another name than url decodes.
C17_ExactFieldName ==
    Decoded("alert_manager")
        => /\ SingleUrlField(input)
                  => /\ out.ok <=> input.o[1][1] = "url"
                     /\ out.ok => out.v = [url |-> UrlParse(input.o[1][2].s).v]
                     /\ input.o[1][1] \in {"URL", "Url"} => out = Err("unknown field")
           /\ (input.t = "obj" /\ out.ok) => Keys(input.o) = {"url"}

\* URL refused with a URL string that url is decoded with
C17_Witness ==
    /\ Decoded("alert_manager")
    /\ input = JObj(<<<<"URL", JStr(StrHttpUrl)>>>>)
    /\ out = Err("unknown field")

\* C18: an object in which url occurs more than once is not decoded, and
\* the error is the duplicate-field error when the first url is a valid URL
\* string; an object without any field fails with the missing-field error.
C18_DuplicateOrMissing ==
    (Decoded("alert_manager") /\ input.t = "obj")
        => /\ Count(input.o, "url") > 1 => ~out.ok
           /\ (/\ Len(input.o) > 1
               /\ input.o[1][1] = "url"
               /\ input.o[2][1] = "url"
               /\ UrlDeserialize(input.o[1][2]).ok) => out = Err("duplicate field url")
           /\ input.o = <<>> => out = Err("missing field url")

(***************************************************************************)
(* Properties of the envelope.                                             *)
(***************************************************************************)
\* a body decoded whose status is the string st
StatusDecoded(st) ==
    /\ Decoded("envelope")
    /\ input.t = "obj"
    /\ FirstOf(input.o, "status") = JStr(st)

\* C19: a body with status error decodes to nothing but an Err envelope,
\* and only when it writes both errorType and error as strings, which the
\* envelope then carries; a body without errorType or without error fails.
C19_ErrCarriesTypeAndMessage ==
    StatusDecoded(<<"e", "r", "r", "o", "r">>)
        => /\ out.ok => out.v.variant = "ApiErr"
           /\ out.ok => /\ {"errorType", "error"} \subseteq Keys(input.o)
                        /\ FirstOf(input.o, "errorType").t = "str"
                        /\ FirstOf(input.o, "error").t = "str"
                        /\ out.v.val.errorType = FirstOf(input.o, "errorType").s
                        /\ out.v.val.error = FirstOf(input.o, "error").s
           /\ ~({"errorType", "error"} \subseteq Keys(input.o)) => ~out.ok

\* status error with an error and no errorType
C19_Witness ==
    /\ StatusDecoded(<<"e", "r", "r", "o", "r">>)
    /\ Keys(input.o) = {"status", "error"}
    /\ FirstOf(input.o, "error") = JStr(StrMajor)
    /\ ~out.ok

\* C20: a decoded envelope of a body without data has no payload, one of a
\* body without warnings has no warnings, and one of a body with warnings
\* has its strings in wire order; a body of a success status alone decodes
\* to Ok without payload and warnings, and the body of status error, error
\* Major and errorType Seriously Bad decodes to Err with these two strings,
\* no payload and no warnings.
C20_OmittedDataAndWarnings ==
    (Decoded("envelope") /\ input.t = "obj")
        => /\ out.ok
                  => /\ "data" \notin Keys(input.o) => out.v.val.data = NoneValue
                     /\ "warnings" \notin Keys(input.o) => out.v.val.warnings = <<>>
                     /\ "warnings" \in Keys(input.o)
                            => LET w == FirstOf(input.o, "warnings")
                               IN  /\ w.t = "arr"
                                   /\ Len(out.v.val.warnings) = Len(w.a)
                                   /\ \A i \in DOMAIN w.a : out.v.val.warnings[i] = w.a[i].s
           /\ input = JObj(<<<<"status", JStr(StrSuccess)>>>>)
                  => out = Ok([variant |-> "ApiOk",
                               val |-> [data |-> NoneValue, warnings |-> <<>>]])
           /\ input = JObj(<<<<"status", JStr(<<"e", "r", "r", "o", "r">>)>>,
                             <<"error", JStr(StrMajor)>>,
                             <<"errorType", JStr(StrSeriouslyBad)>>>>)
                  => out = Ok([variant |-> "ApiErr",
                               val |-> [errorType |-> StrSeriouslyBad, error |-> StrMajor,
                                        data |-> NoneValue, warnings |-> <<>>]])

\* the body of status error, error Major and errorType Seriously Bad
C20_Witness ==
    /\ StatusDecoded(<<"e", "r", "r", "o", "r">>)
    /\ Keys(input.o) = {"status", "error", "errorType"}
    /\ IsVariant(out, "ApiErr")
    /\ out.v.val.errorType = StrSeriouslyBad
    /\ out.v.val.error = StrMajor
    /\ ~out.v.val.data.some
    /\ out.v.val.warnings = <<>>

\* the body with success written in place of its status
AsSuccess(j) ==
    JObj([i \in DOMAIN j.o |->
             IF j.o[i][1] = "status" THEN <<"status", JStr(StrSuccess)>> ELSE j.o[i]])

\* C21: an error body that writes error and errorType as strings and binds
\* data decodes exactly when the same body with status success decodes, and
\* then to an Err envelope with the payload of that Ok envelope, which is
\* what the resolver makes of data, next to the error type, the message and
\* the warnings of the body.
C21_ErrorPayloadAsSuccess ==
    (/\ StatusDecoded(<<"e", "r", "r", "o", "r">>)
     /\ Count(input.o, "status") = 1
     /\ Count(input.o, "data") = 1
     /\ Count(input.o, "error") = 1
     /\ Count(input.o, "errorType") = 1
     /\ FirstOf(input.o, "error").t = "str"
     /\ FirstOf(input.o, "errorType").t = "str")
        => /\ out.ok <=> ApiResultDeserialize(AsSuccess(input)).ok
           /\ out.ok
                  => /\ out.v.variant = "ApiErr"
                     /\ out.v.val.data = ApiResultDeserialize(AsSuccess(input)).v.val.data
                     /\ out.v.val.data = OptionDataDeserialize(EnvelopeData).v
                     /\ out.v.val.warnings
                            = ApiResultDeserialize(AsSuccess(input)).v.val.warnings
                     /\ out.v.val.error = FirstOf(input.o, "error").s
                     /\ out.v.val.errorType = FirstOf(input.o, "errorType").s

\* an error body whose data is a vector of two instants, with a warning
C21_Witness ==
    /\ StatusDecoded(<<"e", "r", "r", "o", "r">>)
    /\ IsVariant(out, "ApiErr")
    /\ out.v.val.error = StrMajor
    /\ out.v.val.errorType = StrSeriouslyBad
    /\ out.v.val.warnings = <<<<"w", "1">>>>
    /\ out.v.val.data.some
    /\ out.v.val.data.val.variant = "Expression"
    /\ out.v.val.data.val.val.variant = "Instant"
    /\ Len(out.v.val.data.val.val.result) = 2

(***************************************************************************)
(* Properties of the resolver's failure and of the list shapes.            *)
(***************************************************************************)
\* the words of the message of the error the untagged enum returns
ErrorWords(err) ==
    IF err = "data did not match any variant of untagged enum Data"
    THEN {"data", "did", "not", "match", "any", "variant", "of", "untagged", "enum", "Data"}
    ELSE {}

\* the names of the eight variants, in the order of the enum
VariantNames ==
    <<"Expression", "Series", "LabelsOrValues", "Targets", "AlertManagers", "Config",
      "Snapshot", "Flags">>

\* no variant of Data accepts j
NoVariantAccepts(j) == \A i \in DOMAIN DataVariants(j) : ~DataVariants(j)[i].ok

\* C22: when no decoder accepts the value bound to data, the error of the
\* resolver names the shapes it attempted, and the decoding of an envelope
\* that binds such a value fails.
C22_ErrorEnumeratesShapes ==
    /\ (Decoded("data") /\ NoVariantAccepts(input))
           => /\ ~out.ok
              /\ \A i \in DOMAIN VariantNames : VariantNames[i] \in ErrorWords(out.err)
    /\ (Decoded("envelope") /\ Count(input.o, "data") = 1 /\ EnvelopeData.t # "null"
        /\ NoVariantAccepts(EnvelopeData))
           => ~out.ok

\* every element of the array is an object whose values are strings
AllLabelMaps(j) ==
    \A i \in DOMAIN j.a :
        j.a[i].t = "obj" /\ \A h \in DOMAIN j.a[i].o : j.a[i].o[h][2].t = "str"

AllStrings(j) == \A i \in DOMAIN j.a : j.a[i].t = "str"

\* C23: a non-empty array of strings resolves to LabelsOrValues holding the
\* strings in wire order, a non-empty array of objects of string values
\* resolves to Series holding the label maps in wire order, and a non-empty
\* array resolves to either variant only when it is of that shape.
C23_ListShapes ==
    (Decoded("data") /\ input.t = "arr" /\ input.a # <<>>)
        => /\ AllStrings(input)
                  => out = Ok([variant |-> "LabelsOrValues",
                               val |-> [i \in DOMAIN input.a |-> input.a[i].s]])
           /\ AllLabelMaps(input)
                  => out = Ok([variant |-> "Series",
                               val |-> [i \in DOMAIN input.a |->
                                           MapDeserialize(input.a[i]).v]])
           /\ IsVariant(out, "LabelsOrValues") => AllStrings(input)
           /\ IsVariant(out, "Series") => AllLabelMaps(input)

\* the strings scalar and info, kept in this order
C23_Witness ==
    /\ Decoded("data")
    /\ input = JArr(<<JStr(StrScalar), JStr(StrInfo)>>)
    /\ out = Ok([variant |-> "LabelsOrValues", val |-> <<StrScalar, StrInfo>>])

\* C28: an object with a resultType key on which the Expression decoder
\* fails is not resolved to any payload.
C28_ExpressionFailureNotMasked ==
    (/\ Decoded("data")
     /\ input.t = "obj"
     /\ "resultType" \in Keys(input.o)
     /\ ~ExpressionDeserialize(input).ok)
        => ~out.ok

\* C29: the empty array resolves to Series, the empty list of label maps,
\* as the payload itself and as the data of an envelope of either status.
C29_EmptyArrayIsSeries ==
    /\ (Decoded("data") /\ input = JArr(<<>>))
           => out = Ok([variant |-> "Series", val |-> <<>>])
    /\ (Decoded("envelope") /\ Count(input.o, "data") = 1 /\ EnvelopeData = JArr(<<>>)
        /\ out.ok)
           => out.v.val.data = SomeValue([variant |-> "Series", val |-> <<>>])

\* the empty array bound to data in an Err envelope
C29_Witness ==
    /\ StatusDecoded(<<"e", "r", "r", "o", "r">>)
    /\ Count(input.o, "data") = 1
    /\ EnvelopeData = JArr(<<>>)
    /\ IsVariant(out, "ApiErr")
    /\ out.v.val.data.val.variant = "Series"

(***************************************************************************)
(* Properties of the payload encoder.                                      *)
(***************************************************************************)
\* C27: the resolver makes of the encoding of a payload value that is no
\* Expression the value itself, variant and contents.
C27_PayloadRoundTrip ==
    (op = "payload" /\ pc = "redecoded" /\ input.variant # "Expression")
        => out2 = Ok(input)

(***************************************************************************)
(* Properties of the client.                                               *)
(***************************************************************************)
\* the responses whose body is not decoded as an envelope
UndecodedResponses == {r \in Responses : r.kind # "transport" /\ ~RecvJson(r).ok}

\* C25: the class of the error returned for a failed exchange is the class
\* of no error returned for a response that is not decoded.
C25_TransportErrorClass ==
    (op = "client" /\ pc = "done" /\ out2.kind = "transport")
        => /\ ~out.ok
           /\ \A r \in UndecodedResponses : RecvJson(r).v.variant # out.v.variant

\* the pairs the request carries, in its query string and in its body
SentParams == wire.query \o wire.body

\* C26: the request of instant_query, range_query and series carries the
\* timeout of a client that has one, once and in whole seconds, and no
\* timeout for a client that has none.
C26_TimeoutSent ==
    (op = "client" /\ pc # "start"
     /\ input.operation \in {"instant_query", "range_query", "series"})
        => /\ input.query_timeout.some
                  => /\ Count(SentParams, "timeout") = 1
                     /\ FirstOf(SentParams, "timeout") = input.query_timeout.val \div 1000
           /\ ~input.query_timeout.some => Count(SentParams, "timeout") = 0

\* C30: the request of flags goes to another url than the request that
\* config sends from the same client.
C30_FlagsUrlDiffers ==
    (op = "client" /\ pc # "start" /\ input.operation = "flags")
        => /\ wire.url.path = PROQ_STATUS_FLAGS_URL
           /\ wire.url # RequestOf([input EXCEPT !.operation = "config"]).url

====
